---- MODULE Spec2Model ----
(***************************************************************************)
(* Model of the trading-monitor alert pipeline.                            *)
(*                                                                         *)
(* Part 1: DeduplicationCooler (dist/services/DeduplicationCooler.js).     *)
(* Part 2: CloudTradingMonitor.performMonitoringCycle / sendNotification   *)
(*         (src/server.ts).                                                *)
(*                                                                         *)
(* Numbers.  Risk/reward ratios and thresholds are fixed-point integers in *)
(* units of 1/10000 (2.0 is 20000, 5.0 is 50000); x * 1.1 is x * 11 \div 10*)
(* Time.  One tick is a quarter of an hour.  A cooldown entry stores       *)
(* age = now - lastNotified in ticks, saturating at cooldownPeriod + 1: the*)
(* code reads lastNotified and cooldownUntil only through the comparisons  *)
(* now < cooldownUntil and now > cooldownUntil, which are age <            *)
(* cooldownPeriod and age > cooldownPeriod.                                *)
(***************************************************************************)
EXTENDS Integers, Sequences, FiniteSets, TLC

VARIABLES
    workload,            \* which of the workloads below drives the system
    cooldownMap,         \* DeduplicationCooler.cooldownMap: key -> entry
    notificationStats,   \* DeduplicationCooler.notificationStats (absent = 0)
    adaptiveThresholds,  \* DeduplicationCooler.adaptiveThresholds (absent = 0)
    calls,               \* shouldNotify calls suspended at their await
    last,                \* the shouldNotify call that completed in this step
    sinceAccepted,       \* history: ticks since shouldNotify last returned true, per key
    cycle,               \* the performMonitoringCycle invocations in flight, per slot
    running,             \* the invocation whose continuation the event loop is running
    monitoringInterval,  \* CloudTradingMonitor.monitoringInterval is set
    lifecycle,           \* the configuration, and how far start() and stop() have come
    collected,           \* the last collectMarketData call: what the exchange answered, what it returned
    http,                \* the DataCollector's client: its clock, lastRequestTime, requests in flight
    notifier,            \* NotificationService: notificationQueue, isProcessing, the drain loop
    snapshots,           \* SnapshotStorage: the files of the storage directory
    engine,              \* OpportunityEngine: the clock, the last analyzeMarket call, the candidates built
    invoked              \* the last call of a method that keeps no state: its arguments, what it returned

coolerVars == <<cooldownMap, notificationStats, adaptiveThresholds>>
serverVars == <<cycle, running, monitoringInterval, lifecycle>>
serviceVars == <<collected, http, notifier, snapshots, engine, invoked>>
pipelineVars == <<workload, cooldownMap, notificationStats, adaptiveThresholds,
                  calls, last, sinceAccepted, cycle, running, monitoringInterval,
                  lifecycle>>
vars == <<workload, cooldownMap, notificationStats, adaptiveThresholds,
          calls, last, sinceAccepted, cycle, running, monitoringInterval, lifecycle,
          collected, http, notifier, snapshots, engine, invoked>>

----------------------------------------------------------------------------
(* Bounds of the exploration *)

\* accepted notifications explored under the mixed workload (all instruments
\* together); under the server's workloads no monitoring cycle is started
\* once that many were accepted
MaxNotifications == 3
\* accepted notifications explored under the long workload (one instrument)
MaxNotificationsLong == 151
\* requests made through the DataCollector's client
MaxRequests == 3
\* 429 answers the exchange gives, all requests together
MaxRateLimited == 2
\* snapshots saved
MaxSaves == 102
\* milliseconds that pass while the engine is watched
MaxClock == 1
\* alerts in a list handed to mergeSimilarSignals
MaxAlerts == 3

\* the first six of the instruments monitored by default
AllSymbols == {"BTCUSDT", "ETHUSDT", "BNBUSDT", "SOLUSDT", "ADAUSDT", "DOGEUSDT"}
Strategies == {"BREAKOUT", "PULLBACK"}
Levels == {"WATCH", "READY", "FIRED"}
\* net risk/reward values fed to the cooler: 0 (also a missing ratio), 2.0, 2.5, 3.0, 5.0
RiskRewards == {0, 20000, 25000, 30000, 50000}
\* the client of the cooler, and the monitoring cycles that may overlap
Client == "client"
Cycles == {"cycle1", "cycle2"}
Callers == {Client} \cup Cycles
NoCycle == "none"
NoSymbol == "none"

NoEntry == [level |-> "none", age |-> -1]
NoCall == [pc |-> "idle"]
None == [path |-> "none"]
\* no notification accepted yet
Never == 0 - 1

Alerts ==
    [symbol : AllSymbols, strategy : Strategies, level : Levels,
     riskRewardRatio : RiskRewards]

Keys == AllSymbols \X Strategies \X Levels

Min(a, b) == IF a < b THEN a ELSE b

----------------------------------------------------------------------------
(* DeduplicationCooler *)

\* 30 * 60 * 1000 ms, in ticks
cooldownPeriod == 2

generateKey(alert) == <<alert.symbol, alert.strategy, alert.level>>

levelOrder(level) ==
    CASE level = "WATCH" -> 1
      [] level = "READY" -> 2
      [] level = "FIRED" -> 3

isLevelUpgrade(existingLevel, newLevel) ==
    levelOrder(newLevel) > levelOrder(existingLevel)

\* the comparison of line 17 turned round
inCooldown_Reversed(existing) ==
    /\ existing # NoEntry
    /\ existing.age > cooldownPeriod

\* existing && now < existing.cooldownUntil
inCooldown(existing) ==
    /\ existing # NoEntry
    /\ existing.age < cooldownPeriod

updateCooldownEntry(cm, key, alert) ==
    [cm EXCEPT ![key] = [level |-> alert.level, age |-> 0]]

getBaseThreshold(level) ==
    CASE level = "FIRED" -> 20000
      [] level = "READY" -> 25000
      [] level = "WATCH" -> 30000
      [] OTHER -> 30000

\* this.adaptiveThresholds.get(symbol) || baseThreshold
adaptiveThresholdFor(at, symbol, level) ==
    IF at[symbol] # 0 THEN at[symbol] ELSE getBaseThreshold(level)

\* riskReward > adaptiveThreshold in place of >=
isAboveAdaptiveThreshold_Strict(at, alert) ==
    alert.riskRewardRatio > adaptiveThresholdFor(at, alert.symbol, alert.level)

isAboveAdaptiveThreshold(at, alert) ==
    alert.riskRewardRatio >= adaptiveThresholdFor(at, alert.symbol, alert.level)

\* without the notificationCount > 50 test of line 95
adjustAdaptiveThreshold_NoCountTest(at, ns, symbol) ==
    LET currentThreshold == IF at[symbol] # 0 THEN at[symbol] ELSE 20000
    IN  [at EXCEPT ![symbol] = Min((currentThreshold * 11) \div 10, 50000)]

\* the new adaptiveThresholds map
adjustAdaptiveThreshold(at, ns, symbol) ==
    LET currentThreshold == IF at[symbol] # 0 THEN at[symbol] ELSE 20000
        notificationCount == ns[symbol]
    IN  IF notificationCount > 50
        THEN [at EXCEPT ![symbol] = Min((currentThreshold * 11) \div 10, 50000)]
        ELSE at

\* the new <<notificationStats, adaptiveThresholds>>
updateNotificationStats(ns, at, symbol) ==
    LET current == ns[symbol]
        ns2 == [ns EXCEPT ![symbol] = current + 1]
    IN  IF (current + 1) % 10 = 0
        THEN <<ns2, adjustAdaptiveThreshold(at, ns2, symbol)>>
        ELSE <<ns2, at>>

\* the steps of shouldNotify's try block that may raise: generateKey (line 13,
\* an alert without its opportunity), isAboveAdaptiveThreshold (line 28) and
\* updateCooldownEntry, which raises at its last statement (line 61), after
\* its Map.set of line 53
Faults == {"none", "generateKey", "isAboveAdaptiveThreshold", "updateCooldownEntry"}

\* every level of one instrument and one level of another, few notifications
MixedWorkload ==
    [alerts |-> {a \in Alerts : /\ a.symbol \in {"BTCUSDT", "ETHUSDT"}
                                /\ a.strategy = "BREAKOUT"
                                /\ a.riskRewardRatio # 50000
                                /\ a.symbol = "ETHUSDT" => a.level = "FIRED"},
     faults |-> {"none"}, budget |-> MaxNotifications]

\* one instrument notified again and again, cooldown period after cooldown period
LongWorkload ==
    [alerts |-> {a \in Alerts : /\ a.symbol = "BTCUSDT"
                                /\ a.strategy = "BREAKOUT"
                                /\ a.level \in {"WATCH", "FIRED"}
                                /\ a.riskRewardRatio \in {25000, 30000, 50000}},
     faults |-> {"none"}, budget |-> MaxNotificationsLong]

\* every step of shouldNotify may raise
FaultyWorkload ==
    [alerts |-> {a \in Alerts : /\ a.symbol = "BTCUSDT"
                                /\ a.strategy = "BREAKOUT"
                                /\ a.level \in {"WATCH", "FIRED"}
                                /\ a.riskRewardRatio \in {0, 30000}},
     faults |-> Faults, budget |-> MaxNotifications]

\* one monitoring cycle at a time over two instruments; any stage may fail
CycleWorkload ==
    [symbols |-> <<"BTCUSDT", "ETHUSDT">>, cycles |-> {"cycle1"},
     opportunities |-> {"BTCUSDT", "ETHUSDT"},
     failures |-> TRUE, faults |-> {"none"}, budget |-> MaxNotifications]

\* timer ticks that start a cycle while the previous one is still running;
\* one instrument, no stage fails
OverlapWorkload ==
    [symbols |-> <<"BTCUSDT">>, cycles |-> Cycles,
     opportunities |-> {"BTCUSDT"},
     failures |-> FALSE, faults |-> {"none"}, budget |-> MaxNotifications]

\* one monitoring cycle at a time over six instruments, which is more than a
\* batch; any stage may fail; the market offers no opportunity
BatchesWorkload ==
    [symbols |-> <<"BTCUSDT", "ETHUSDT", "BNBUSDT", "SOLUSDT", "ADAUSDT", "DOGEUSDT">>,
     cycles |-> {"cycle1"}, opportunities |-> {},
     failures |-> TRUE, faults |-> {"none"}, budget |-> MaxNotifications]

\* one monitoring cycle at a time over one instrument that offers an
\* opportunity, while the market is tested for abnormal conditions
BreakerWorkload ==
    [symbols |-> <<"BTCUSDT">>, cycles |-> {"cycle1"}, opportunities |-> {"BTCUSDT"},
     failures |-> FALSE, faults |-> {"none"}, budget |-> MaxNotifications]

\* start() and stop() around the cycles of one instrument; the environment
\* varies, the market offers no opportunity and no stage fails
LifecycleWorkload ==
    [symbols |-> <<"BTCUSDT">>, cycles |-> {"cycle1"}, opportunities |-> {},
     failures |-> FALSE, faults |-> {"none"}, budget |-> MaxNotifications]

Workload ==
    CASE workload = "mixed" -> MixedWorkload
      [] workload = "long" -> LongWorkload
      [] workload = "faulty" -> FaultyWorkload
      [] workload = "cycle" -> CycleWorkload
      [] workload = "overlap" -> OverlapWorkload
      [] workload = "batches" -> BatchesWorkload
      [] workload = "lifecycle" -> LifecycleWorkload
      [] workload = "breaker" -> BreakerWorkload

RECURSIVE SumOver(_, _)
SumOver(f, S) ==
    IF S = {} THEN 0
    ELSE LET x == CHOOSE y \in S : TRUE IN f[x] + SumOver(f, S \ {x})

TotalNotifications == SumOver(notificationStats, AllSymbols)

CoolerState ==
    [cooldownMap |-> cooldownMap, notificationStats |-> notificationStats,
     adaptiveThresholds |-> adaptiveThresholds]

Returned(st, ret, path) == [st |-> st, done |-> TRUE, ret |-> ret, path |-> path]

\* a catch block that lets the alert through
onError_FailOpen(st) == Returned(st, TRUE, "error")

\* catch (error) { logger.error(...); return false; }
onError(st) == Returned(st, FALSE, "error")

\* shouldNotify from its call to the await of line 28 (done = FALSE, above is
\* the awaited value) or to its return when it returns before
shouldNotifyEnter(st, alert, fault) ==
    LET key == generateKey(alert)
        existing == st.cooldownMap[key]
    IN  IF fault = "generateKey" THEN onError(st)
        ELSE IF inCooldown(existing)
        THEN IF isLevelUpgrade(existing.level, alert.level)
             THEN LET written ==
                          [st EXCEPT !.cooldownMap = updateCooldownEntry(@, key, alert)]
                  IN  IF fault = "updateCooldownEntry"
                      THEN onError(written)
                      ELSE Returned(written, TRUE, "upgrade")
             ELSE Returned(st, FALSE, "cooldown")
        ELSE IF fault = "isAboveAdaptiveThreshold" THEN onError(st)
        ELSE [st |-> st, done |-> FALSE, ret |-> FALSE, path |-> "await",
              above |-> isAboveAdaptiveThreshold(st.adaptiveThresholds, alert)]

\* shouldNotify from the await of line 28 to its return
shouldNotifyResume(st, alert, fault, above) ==
    LET key == generateKey(alert)
        stats == updateNotificationStats(st.notificationStats, st.adaptiveThresholds,
                                         alert.symbol)
        written == [st EXCEPT !.cooldownMap = updateCooldownEntry(@, key, alert)]
    IN  IF ~above THEN Returned(st, FALSE, "below")
        ELSE IF fault = "updateCooldownEntry" THEN onError(written)
        ELSE Returned([written EXCEPT !.notificationStats = stats[1],
                                      !.adaptiveThresholds = stats[2]],
                      TRUE, "threshold")

\* a shouldNotify call that no other call overlaps
shouldNotify(st, alert, fault) ==
    LET e == shouldNotifyEnter(st, alert, fault)
    IN  IF e.done THEN e ELSE shouldNotifyResume(e.st, alert, fault, e.above)

\* levels of the accepted notifications of one instrument and strategy
\* that are less than a cooldown period old (history)
RecentLevels(symbol, strategy) ==
    {l \in Levels : /\ sinceAccepted[<<symbol, strategy, l>>] # Never
                    /\ sinceAccepted[<<symbol, strategy, l>>] < cooldownPeriod}

\* what is recorded of a call when it returns: its arguments, its result,
\* and what held when it was made
Completed(caller, alert, fault, r) ==
    [caller |-> caller, alert |-> alert, fault |-> IF r.path = "error" THEN fault ELSE "none",
     ret |-> r.ret, path |-> r.path,
     existing |-> cooldownMap[<<alert.symbol, alert.strategy, alert.level>>],
     sincePrev |-> sinceAccepted[<<alert.symbol, alert.strategy, alert.level>>],
     adaptiveBefore |-> adaptiveThresholds[alert.symbol],
     recentLevels |-> RecentLevels(alert.symbol, alert.strategy)]

Install(st) ==
    /\ cooldownMap' = st.cooldownMap
    /\ notificationStats' = st.notificationStats
    /\ adaptiveThresholds' = st.adaptiveThresholds

\* a sweep that takes every entry for expired
isExpired_Always(entry) == entry # NoEntry

\* now > entry.cooldownUntil (line 138)
isExpired(entry) == entry # NoEntry /\ entry.age > cooldownPeriod

\* for (const [key, entry] of this.cooldownMap.entries()) if (now > entry.cooldownUntil) delete
cleanupExpiredEntries ==
    /\ running = NoCycle
    /\ \E k \in Keys : isExpired(cooldownMap[k])
    /\ cooldownMap' = [k \in Keys |->
          IF isExpired(cooldownMap[k]) THEN NoEntry ELSE cooldownMap[k]]
    /\ last' = None
    /\ UNCHANGED <<workload, notificationStats, adaptiveThresholds, calls, sinceAccepted>>
    /\ UNCHANGED serverVars
    /\ UNCHANGED serviceVars

\* a quarter of an hour passes; no continuation runs and no call is
\* suspended at an await meanwhile
AdvanceTime ==
    /\ running = NoCycle
    /\ \A c \in Callers : calls[c] = NoCall
    /\ \/ \E k \in Keys : cooldownMap[k] # NoEntry /\ cooldownMap[k].age <= cooldownPeriod
       \/ \E k \in Keys : sinceAccepted[k] # Never /\ sinceAccepted[k] <= cooldownPeriod
       \/ last # None
    /\ cooldownMap' = [k \in Keys |->
          IF cooldownMap[k] = NoEntry THEN NoEntry
          ELSE [cooldownMap[k] EXCEPT !.age = Min(@ + 1, cooldownPeriod + 1)]]
    /\ sinceAccepted' = [k \in Keys |->
          IF sinceAccepted[k] = Never THEN Never
          ELSE Min(sinceAccepted[k] + 1, cooldownPeriod + 1)]
    /\ last' = None
    /\ UNCHANGED <<workload, notificationStats, adaptiveThresholds, calls>>
    /\ UNCHANGED serverVars
    /\ UNCHANGED serviceVars

----------------------------------------------------------------------------
(* A client that issues shouldNotify calls one after another on one cooler *)

ClientShouldNotify ==
    /\ \A c \in Callers : calls[c] = NoCall
    /\ TotalNotifications < Workload.budget
    /\ \E alert \in Workload.alerts, fault \in Workload.faults :
          /\ LET r == shouldNotify(CoolerState, alert, fault)
             IN  /\ Install(r.st)
                 /\ last' = Completed(Client, alert, fault, r)
                 /\ sinceAccepted' =
                       IF r.ret
                       THEN [sinceAccepted EXCEPT
                               ![<<alert.symbol, alert.strategy, alert.level>>] = 0]
                       ELSE sinceAccepted
    /\ UNCHANGED <<workload, calls>>
    /\ UNCHANGED serverVars
    /\ UNCHANGED serviceVars

----------------------------------------------------------------------------
(* AlertClassifier, RiskAssessor and the data the pipeline stages produce *)

\* distances to the entry price and ATR values are in units of 1/100000
readyThreshold == 500
watchThreshold == 2000
\* baseATR * volatilityFactor: 0.001 * (0.5 .. 2.5)
ATRs == {50, 150, 250}

\* the test of the ATR band before the test of readyThreshold
determineAlertLevel_BandFirst(distance, atr) ==
    LET normalizedDistance == IF distance < 0 THEN 0 - distance ELSE distance
    IN  IF 2 * normalizedDistance <= 3 * atr THEN "READY"
        ELSE IF normalizedDistance <= readyThreshold THEN "FIRED"
        ELSE IF normalizedDistance <= watchThreshold THEN "WATCH"
        ELSE "WATCH"

\* lines 413-425; atr * atrMultiplier is atr * 3 / 2
determineAlertLevel(distance, atr) ==
    LET normalizedDistance == IF distance < 0 THEN 0 - distance ELSE distance
    IN  IF normalizedDistance <= readyThreshold THEN "FIRED"
        ELSE IF 2 * normalizedDistance <= 3 * atr THEN "READY"
        ELSE IF normalizedDistance <= watchThreshold THEN "WATCH"
        ELSE "WATCH"

minNetRR == 20000
\* volatility in 1/10000, liquidity in thousands of dollars, market condition in 1/100
maxVolatilityThreshold == 500
minLiquidityThreshold == 1000
\* the values calculateVolatility, calculateLiquidity and assessMarketCondition draw
RiskFactors == [volatility : {100, 400}, liquidity : {1000, 6000}, marketCondition : {60, 100}]

\* without the netRR test of line 72
isRiskAcceptable_NoNetRRTest(netRR, factors) ==
    /\ factors.volatility <= maxVolatilityThreshold
    /\ factors.liquidity >= minLiquidityThreshold
    /\ factors.marketCondition >= 50

isRiskAcceptable(netRR, factors) ==
    /\ netRR >= minNetRR
    /\ factors.volatility <= maxVolatilityThreshold
    /\ factors.liquidity >= minLiquidityThreshold
    /\ factors.marketCondition >= 50

NoCandidate == [strategy |-> "none", riskRewardRatio |-> 0, distanceToEntry |-> 0]

\* OpportunityEngine.minNetRR, 1.5
engineMinNetRR == 15000

\* what the strategies compute for an instrument: breakouts entered at the
\* market (distance 0) with net risk/reward 3.0, 1.8 or 1.0, or a pullback
\* with 2.5 whose entry is 1% away
ComputedCandidates ==
    {[strategy |-> "BREAKOUT", riskRewardRatio |-> 30000, distanceToEntry |-> 0],
     [strategy |-> "BREAKOUT", riskRewardRatio |-> 18000, distanceToEntry |-> 0],
     [strategy |-> "BREAKOUT", riskRewardRatio |-> 10000, distanceToEntry |-> 0],
     [strategy |-> "PULLBACK", riskRewardRatio |-> 25000, distanceToEntry |-> 1000]}

\* what analyzeMarket returns for an instrument: no candidate, or one of
\* those with netRR >= minNetRR (lines 295, 345, 400 and the filter of line 33)
Candidates ==
    {o \in ComputedCandidates : o.riskRewardRatio >= engineMinNetRR}

----------------------------------------------------------------------------
(* CloudTradingMonitor: startMonitoring, performMonitoringCycle,           *)
(* sendNotification.  The instruments of a workload fit one batch of the   *)
(* fetch loop (batchSize is 5).                                            *)

\* JavaScript values, tagged with their kind
Num(n) == [kind |-> "number", num |-> n]
Str(s) == [kind |-> "string", str |-> s]
DateOf(t) == [kind |-> "Date", time |-> t]
Undefined == [kind |-> "undefined"]
Null == [kind |-> "null"]
Arr(items) == [kind |-> "array", items |-> items]
Obj(fields) == [kind |-> "object", fields |-> fields]

\* what a cycle holds of one instrument: how far its data, opportunity and
\* alert have come (status), the opportunity's numbers, the alert's level, and
\* what sendNotification did for it
\* marketData is the entry of marketDataMap (line 165), savedMarketData what
\* sendNotification handed to saveSnapshot
NoItem ==
    [status |-> "unused", strategy |-> "none", riskRewardRatio |-> 0,
     distanceToEntry |-> 0,
     level |-> "none", snapshot |-> "none", email |-> "none", broadcast |-> FALSE,
     marketData |-> Undefined, savedMarketData |-> Undefined]

\* what collectMarketData returned for an instrument (lines 149-151)
CollectedFor(s) ==
    Obj([symbol |-> Str(s), price |-> Num(100), volume |-> Num(7),
         klines |-> Arr(<<Obj([openTime |-> Num(1), close |-> Num(99)])>>),
         depth |-> Obj([bids |-> Arr(<< >>), asks |-> Arr(<< >>)]),
         fundingRate |-> Num(3), openInterest |-> Num(9)])

\* sendNotification, line 256: const marketData = {}
notificationMarketData == Obj([x \in {} |-> Null])

IdleCycle ==
    [pc |-> "idle", item |-> [s \in AllSymbols |-> NoItem], published |-> FALSE]

SymbolsOf(symbols) == {symbols[i] : i \in 1..Len(symbols)}

\* line 144
batchSize == 5

\* the place of an instrument in config.monitoring.symbols, from 0
IndexOf(s) ==
    (CHOOSE i \in 1..Len(Workload.symbols) : Workload.symbols[i] = s) - 1

\* the batch of an instrument: symbols.slice(i, i + batchSize) for i = 0,
\* batchSize, 2 * batchSize, ... (lines 146-147)
BatchOf(s) == IndexOf(s) \div batchSize

\* performMonitoringCycle up to its await of the first batch's fetches; the
\* instruments of the later batches wait
StartCycle ==
    [pc |-> "running",
     item |-> [s \in AllSymbols |->
                 IF s \in SymbolsOf(Workload.symbols)
                 THEN [NoItem EXCEPT !.status =
                          IF BatchOf(s) = 0 THEN "fetching" ELSE "waiting"]
                 ELSE NoItem],
     published |-> FALSE]

\* batch.map(...) of lines 147-158 for the next batch: the fetches of the
\* waiting instruments of the lowest batch are started
startBatch(cy) ==
    LET waiting == {s \in AllSymbols : cy.item[s].status = "waiting"}
        next == {s \in waiting : \A t \in waiting : BatchOf(s) <= BatchOf(t)}
    IN  [cy EXCEPT !.item = [s \in AllSymbols |->
                               IF s \in next THEN [cy.item[s] EXCEPT !.status = "fetching"]
                               ELSE cy.item[s]]]

\* a batch that is awaited with Promise.race
batchSettled_Race(cy) ==
    \E s \in AllSymbols : cy.item[s].status \in {"fetched", "fetchFailed"}

\* await Promise.all(batchPromises) of line 160 goes on: every fetch of the
\* batch has settled (a batch promise does not reject, lines 148-157)
batchSettled(cy) ==
    \A s \in AllSymbols : cy.item[s].status # "fetching"

\* line 171: i + batchSize < config.monitoring.symbols.length
moreBatches(cy) ==
    \E s \in AllSymbols : cy.item[s].status = "waiting"

\* the first instrument, in the order of config.monitoring.symbols, that is
\* at one of the statuses: the loops of the cycle run in that order
FirstWith(c, statuses) ==
    LET symbols == Workload.symbols
        idx == {i \in 1..Len(symbols) : cycle[c].item[symbols[i]].status \in statuses}
    IN  IF idx = {} THEN NoSymbol
        ELSE symbols[CHOOSE i \in idx : \A j \in idx : i <= j]

\* whether a stage of the workload may fail
Outcomes == IF Workload.failures THEN {TRUE, FALSE} ELSE {TRUE}

\* the awaits whose promise is settled by I/O or by a timer, so that the
\* event loop runs other callbacks before the continuation: the HTTP requests
\* of collectMarketData, the writeFile of saveSnapshot, the mail of sendAlert.
\* The promises of analyzeMarket, assessRisk, classifyAlert and
\* isAboveAdaptiveThreshold are settled by code that does no I/O: their
\* continuations run from the microtask queue, before any other callback.
YieldsToEventLoop_ThresholdIO(point) ==
    point \in {"collectMarketData", "saveSnapshot", "sendAlert", "isAboveAdaptiveThreshold"}

YieldsToEventLoop(point) ==
    point \in {"collectMarketData", "saveSnapshot", "sendAlert"}

\* the continuation after an await can run
Resumable(c, point) ==
    IF YieldsToEventLoop(point) THEN running = NoCycle ELSE running = c

\* every classified alert is pushed to processedAlerts
processedStatus_Always(shouldNotifyResult) == "accepted"

\* lines 207-209: if (shouldNotify) processedAlerts.push(classifiedAlert)
processedStatus(shouldNotifyResult) ==
    IF shouldNotifyResult THEN "accepted" ELSE "suppressed"

\* a catch block that passes the error on, to the catch of lines 247-250
catchItem_Rethrow(cy, s, status) ==
    [cy EXCEPT !.item[s].status = status, !.pc = "aborted"]

\* the catch blocks inside the loops: log the error, go on with the next item
catchItem(cy, s, status) ==
    [cy EXCEPT !.item[s].status = status]

\* the cycle goes on to new; it waits for the event loop (yields), carries on
\* from the microtask queue, or has returned.  startMonitoring sets the
\* interval timer when the cycle it awaits has returned (lines 120-127), and
\* start() goes on to schedule its cron job and returns (lines 303-311).
Step(c, new, yields) ==
    /\ cycle' = [cycle EXCEPT ![c] = new]
    /\ running' = IF new.pc # "running" \/ yields THEN NoCycle ELSE c
    /\ LET awaited == lifecycle.pc = "monitoring" /\ new.pc # "running"
       IN  /\ monitoringInterval' = (monitoringInterval \/ awaited)
           /\ lifecycle' = IF awaited THEN [lifecycle EXCEPT !.pc = "started"]
                           ELSE lifecycle

AlertOf(c, s) ==
    [symbol |-> s, strategy |-> cycle[c].item[s].strategy, level |-> cycle[c].item[s].level,
     riskRewardRatio |-> cycle[c].item[s].riskRewardRatio]

Accepted(alert, ret) ==
    IF ret
    THEN [sinceAccepted EXCEPT ![<<alert.symbol, alert.strategy, alert.level>>] = 0]
    ELSE sinceAccepted

\* await this.performMonitoringCycle() of line 117
startMonitoring ==
    /\ lifecycle.pc = "testing"
    /\ ~monitoringInterval
    /\ running = NoCycle
    /\ \A c \in Cycles : cycle[c].pc = "idle"
    /\ cycle' = [cycle EXCEPT !["cycle1"] = StartCycle]
    /\ lifecycle' = [lifecycle EXCEPT !.pc = "monitoring"]
    /\ last' = None
    /\ UNCHANGED <<workload, coolerVars, calls, sinceAccepted, running, monitoringInterval>>
    /\ UNCHANGED serviceVars

\* the callback of setInterval: it starts a cycle whether or not the one
\* before has returned (a free slot; the lower one first)
TimerTick(c) ==
    /\ monitoringInterval
    /\ running = NoCycle
    /\ c \in Workload.cycles
    /\ cycle[c].pc # "running"
    /\ c = "cycle2" => cycle["cycle1"].pc = "running"
    /\ TotalNotifications < Workload.budget
    /\ cycle' = [cycle EXCEPT ![c] = StartCycle]
    /\ last' = None
    /\ UNCHANGED <<workload, coolerVars, calls, sinceAccepted, running, monitoringInterval,
                   lifecycle>>
    /\ UNCHANGED serviceVars

\* collectMarketData of one instrument of the batch settles (lines 149-158);
\* with the last one Promise.all settles and the cycle goes on: to the timer
\* of lines 171-173 when there are more batches, to the analysis when not
FetchSettled(c) ==
    /\ Resumable(c, "collectMarketData")
    /\ cycle[c].pc = "running"
    /\ \E s \in AllSymbols, ok \in Outcomes :
          /\ cycle[c].item[s].status = "fetching"
          /\ LET new == IF ok THEN [cycle[c] EXCEPT !.item[s].status = "fetched",
                                                   !.item[s].marketData = CollectedFor(s)]
                        ELSE catchItem(cycle[c], s, "fetchFailed")
             IN  Step(c, new, ~batchSettled(new) \/ moreBatches(new))
    /\ last' = None
    /\ UNCHANGED <<workload, coolerVars, calls, sinceAccepted>>
    /\ UNCHANGED serviceVars

\* the timer of lines 171-173 fires 200 ms after the batch has settled, and
\* the loop of line 146 starts the next batch
BatchDelayElapsed(c) ==
    /\ running = NoCycle
    /\ cycle[c].pc = "running"
    /\ batchSettled(cycle[c])
    /\ moreBatches(cycle[c])
    /\ Step(c, startBatch(cycle[c]), YieldsToEventLoop("collectMarketData"))
    /\ last' = None
    /\ UNCHANGED <<workload, coolerVars, calls, sinceAccepted>>
    /\ UNCHANGED serviceVars

\* the opportunities the engine may find on an instrument
OpportunitiesOf(s) ==
    IF s \in Workload.opportunities THEN Candidates ELSE {}

\* lines 178-185: analyzeMarket returns no candidate or one, or raises
Analyze(c) ==
    /\ running = c
    /\ cycle[c].pc = "running"
    /\ LET s == FirstWith(c, {"fetched"})
       IN  /\ s # NoSymbol
           /\ \E raised \in {~ok : ok \in Outcomes}, o \in OpportunitiesOf(s) \cup {NoCandidate} :
                 LET new == IF raised THEN catchItem(cycle[c], s, "analysisFailed")
                            ELSE IF o = NoCandidate
                            THEN [cycle[c] EXCEPT !.item[s].status = "noOpportunity"]
                            ELSE [cycle[c] EXCEPT
                                     !.item[s].status = "opportunity",
                                     !.item[s].strategy = o.strategy,
                                     !.item[s].riskRewardRatio = o.riskRewardRatio,
                                     !.item[s].distanceToEntry = o.distanceToEntry]
                 IN  Step(c, new, FALSE)
    /\ last' = None
    /\ UNCHANGED <<workload, coolerVars, calls, sinceAccepted>>
    /\ UNCHANGED serviceVars

\* lines 189-198
AssessRisk(c) ==
    /\ running = c
    /\ cycle[c].pc = "running"
    /\ FirstWith(c, {"fetched"}) = NoSymbol
    /\ LET s == FirstWith(c, {"opportunity"})
       IN  /\ s # NoSymbol
           /\ \E ok \in Outcomes, factors \in RiskFactors :
                 LET isAcceptable ==
                         isRiskAcceptable(cycle[c].item[s].riskRewardRatio, factors)
                     new == IF ~ok THEN catchItem(cycle[c], s, "riskFailed")
                            ELSE [cycle[c] EXCEPT !.item[s].status =
                                     IF isAcceptable THEN "valid" ELSE "rejected"]
                 IN  Step(c, new, FALSE)
    /\ last' = None
    /\ UNCHANGED <<workload, coolerVars, calls, sinceAccepted>>
    /\ UNCHANGED serviceVars

\* line 204, and the catch of lines 210-212
ClassifyAlert(c) ==
    /\ running = c
    /\ cycle[c].pc = "running"
    /\ FirstWith(c, {"fetched", "opportunity", "classified", "deciding"}) = NoSymbol
    /\ LET s == FirstWith(c, {"valid"})
       IN  /\ s # NoSymbol
           /\ \E ok \in Outcomes, atr \in ATRs :
                 LET new == IF ~ok THEN catchItem(cycle[c], s, "classifyFailed")
                            ELSE [cycle[c] EXCEPT
                                     !.item[s].status = "classified",
                                     !.item[s].level =
                                        determineAlertLevel(cycle[c].item[s].distanceToEntry, atr)]
                 IN  Step(c, new, FALSE)
    /\ last' = None
    /\ UNCHANGED <<workload, coolerVars, calls, sinceAccepted>>
    /\ UNCHANGED serviceVars

\* line 205: shouldNotify up to its await of isAboveAdaptiveThreshold, or to
\* its return when it returns before (lines 206-209 then)
CycleShouldNotify(c) ==
    /\ running = c
    /\ cycle[c].pc = "running"
    /\ LET s == FirstWith(c, {"classified"})
       IN  /\ s # NoSymbol
           /\ \E fault \in Workload.faults :
                 LET alert == AlertOf(c, s)
                     e == shouldNotifyEnter(CoolerState, alert, fault)
                 IN  IF e.done
                     THEN /\ Install(e.st)
                          /\ last' = Completed(c, alert, fault, e)
                          /\ sinceAccepted' = Accepted(alert, e.ret)
                          /\ calls' = calls
                          /\ Step(c, [cycle[c] EXCEPT !.item[s].status =
                                        processedStatus(e.ret)], FALSE)
                     ELSE /\ calls' = [calls EXCEPT ![c] =
                                [pc |-> "await", alert |-> alert, fault |-> fault,
                                 above |-> e.above]]
                          /\ last' = None
                          /\ Step(c, [cycle[c] EXCEPT !.item[s].status = "deciding"],
                                  YieldsToEventLoop("isAboveAdaptiveThreshold"))
                          /\ UNCHANGED <<coolerVars, sinceAccepted>>
    /\ UNCHANGED workload
    /\ UNCHANGED serviceVars

\* shouldNotify from its await to its return, and lines 206-209
CycleShouldNotifyResume(c) ==
    /\ Resumable(c, "isAboveAdaptiveThreshold")
    /\ cycle[c].pc = "running"
    /\ calls[c] # NoCall
    /\ LET alert == calls[c].alert
           r == shouldNotifyResume(CoolerState, alert, calls[c].fault, calls[c].above)
       IN  /\ Install(r.st)
           /\ last' = Completed(c, alert, calls[c].fault, r)
           /\ sinceAccepted' = Accepted(alert, r.ret)
           /\ Step(c, [cycle[c] EXCEPT !.item[alert.symbol].status =
                         processedStatus(r.ret)], FALSE)
    /\ calls' = [calls EXCEPT ![c] = NoCall]
    /\ UNCHANGED workload
    /\ UNCHANGED serviceVars

\* line 218 for the next alert of processedAlerts: sendNotification up to
\* its await of saveSnapshot
BeginNotification(c) ==
    /\ running = c
    /\ cycle[c].pc = "running"
    /\ FirstWith(c, {"fetched", "opportunity", "valid", "classified", "deciding"}) = NoSymbol
    /\ LET s == FirstWith(c, {"accepted"})
       IN  /\ s # NoSymbol
           /\ Step(c, [cycle[c] EXCEPT !.item[s].status = "saving"],
                   YieldsToEventLoop("saveSnapshot"))
    /\ last' = None
    /\ UNCHANGED <<workload, coolerVars, calls, sinceAccepted>>
    /\ UNCHANGED serviceVars

\* saveSnapshot settles.  Saved: lines 258-261, up to the await of sendAlert.
\* Failed: the catch of lines 268-271 passes the error on to the catch of
\* lines 219-221.
SnapshotSettled(c) ==
    /\ Resumable(c, "saveSnapshot")
    /\ cycle[c].pc = "running"
    /\ LET s == FirstWith(c, {"saving"})
       IN  /\ s # NoSymbol
           /\ \E ok \in Outcomes :
                 IF ok
                 THEN Step(c, [cycle[c] EXCEPT !.item[s].status = "sending",
                                               !.item[s].snapshot = "saved",
                                               !.item[s].savedMarketData =
                                                  notificationMarketData,
                                               !.item[s].email = "pending"],
                           YieldsToEventLoop("sendAlert"))
                 ELSE Step(c, catchItem([cycle[c] EXCEPT !.item[s].snapshot = "failed"],
                                        s, "notifyFailed"), FALSE)
    /\ last' = None
    /\ UNCHANGED <<workload, coolerVars, calls, sinceAccepted>>
    /\ UNCHANGED serviceVars

\* sendAlert settles, with true or false (it catches its errors); lines 262-267
AlertSettled(c) ==
    /\ Resumable(c, "sendAlert")
    /\ cycle[c].pc = "running"
    /\ LET s == FirstWith(c, {"sending"})
       IN  /\ s # NoSymbol
           /\ \E sent \in {TRUE, FALSE} :
                 Step(c, [cycle[c] EXCEPT !.item[s].status = "notified",
                                          !.item[s].email = IF sent THEN "sent" ELSE "failed",
                                          !.item[s].broadcast = TRUE], FALSE)
    /\ last' = None
    /\ UNCHANGED <<workload, coolerVars, calls, sinceAccepted>>
    /\ UNCHANGED serviceVars

\* the statuses of an instrument the cycle has still to work on
Pending ==
    {"waiting", "fetching", "fetched", "opportunity", "valid", "classified", "deciding",
     "accepted", "saving", "sending"}

\* lines 224-245: the loops are through; broadcastStatus
PublishStatus(c) ==
    /\ running = c
    /\ cycle[c].pc = "running"
    /\ FirstWith(c, Pending) = NoSymbol
    /\ Step(c, [cycle[c] EXCEPT !.pc = "done", !.published = TRUE], FALSE)
    /\ last' = None
    /\ UNCHANGED <<workload, coolerVars, calls, sinceAccepted>>
    /\ UNCHANGED serviceVars

----------------------------------------------------------------------------
(* DataCollector.collectMarketData: what it returns, given what the        *)
(* exchange answers to each of its requests.  Prices and volumes are plain *)
(* numbers, funding rates are in units of 1/10000; klines and depth are    *)
(* sequences (<< >> is the empty list, the empty book).                    *)

NotCollected == [pc |-> "idle"]

\* what the exchange answers, request by request: the price request of
\* getBasicMarketData ("fail", a price of 0, or a price), and the requests of
\* the five sub-queries of collectData (the ticker makes two)
RemoteAnswers ==
    [basic : {"fail", "zero", "price"},
     klines : {"ok", "fail"}, depth : {"ok", "fail"},
     tickerPrice : {"ok", "fail"}, tickerVolume : {"ok", "fail"},
     funding : {"ok", "fail"}, openInterest : {"ok", "fail"}]

\* the values the exchange holds for the instrument
Fetched ==
    [price |-> 100, volume |-> 7, klines |-> <<1, 2>>, depth |-> <<1>>,
     funding |-> 3, openInterest |-> 9]

\* the defaults of collectData (lines 72-77)
Defaults ==
    [price |-> 0, volume |-> 0, klines |-> << >>, depth |-> << >>,
     funding |-> 0, openInterest |-> 0]

\* Math.random() at its two ends
MockDraws == {"low", "high"}

Fulfilled(value) == [status |-> "fulfilled", value |-> value]
Rejected == [status |-> "rejected", value |-> [none |-> 0]]

\* lines 107-130: an error is caught and an empty list returned
getKlines(remote) ==
    IF remote.klines = "ok" THEN Fulfilled([klines |-> Fetched.klines])
    ELSE Fulfilled([klines |-> << >>])

\* lines 132-149: an error is passed on
getDepth(remote) ==
    IF remote.depth = "ok" THEN Fulfilled([depth |-> Fetched.depth])
    ELSE Rejected

\* lines 151-184: a failed 24hr request leaves volume 0, a failed price
\* request returns price 0 and volume 0
getTicker(remote) ==
    IF remote.tickerPrice = "ok"
    THEN Fulfilled([price |-> Fetched.price,
                    volume |-> IF remote.tickerVolume = "ok" THEN Fetched.volume ELSE 0])
    ELSE Fulfilled([price |-> 0, volume |-> 0])

getFundingRate(remote) ==
    IF remote.funding = "ok" THEN Fulfilled([funding |-> Fetched.funding])
    ELSE Fulfilled([funding |-> 0])

getOpenInterest(remote) ==
    IF remote.openInterest = "ok" THEN Fulfilled([openInterest |-> Fetched.openInterest])
    ELSE Fulfilled([openInterest |-> 0])

\* settledResult.value[key] || defaultValue; 0 is falsy, a list is not
extractValue(settledResult, key, defaultValue) ==
    IF settledResult.status = "fulfilled"
    THEN IF key \in {"klines", "depth"} THEN settledResult.value[key]
         ELSE IF settledResult.value[key] = 0 THEN defaultValue
         ELSE settledResult.value[key]
    ELSE defaultValue

\* lines 55-96; Promise.allSettled does not reject
collectData(symbol, remote) ==
    [symbol |-> symbol,
     price |-> extractValue(getTicker(remote), "price", 0),
     volume |-> extractValue(getTicker(remote), "volume", 0),
     klines |-> extractValue(getKlines(remote), "klines", << >>),
     depth |-> extractValue(getDepth(remote), "depth", << >>),
     funding |-> extractValue(getFundingRate(remote), "funding", 0),
     openInterest |-> extractValue(getOpenInterest(remote), "openInterest", 0)]

\* mock data that carries the candles of the exchange
getMockData_WithCandles(symbol, draw) ==
    LET basePrice == IF symbol = "BTCUSDT" THEN 43000
                     ELSE IF symbol = "ETHUSDT" THEN 2500 ELSE 100
    IN  [symbol |-> symbol,
         price |-> IF draw = "low" THEN basePrice - basePrice \div 100
                   ELSE basePrice + basePrice \div 100,
         volume |-> IF draw = "low" THEN 0 ELSE 999999,
         klines |-> Fetched.klines, depth |-> << >>,
         funding |-> 1,
         openInterest |-> IF draw = "low" THEN 0 ELSE 99999999]

\* lines 298-314: basePrice +- 1%, a random volume and open interest, a
\* funding rate of 0.0001
getMockData(symbol, draw) ==
    LET basePrice == IF symbol = "BTCUSDT" THEN 43000
                     ELSE IF symbol = "ETHUSDT" THEN 2500 ELSE 100
    IN  [symbol |-> symbol,
         price |-> IF draw = "low" THEN basePrice - basePrice \div 100
                   ELSE basePrice + basePrice \div 100,
         volume |-> IF draw = "low" THEN 0 ELSE 999999,
         klines |-> << >>, depth |-> << >>,
         funding |-> 1,
         openInterest |-> IF draw = "low" THEN 0 ELSE 99999999]

\* lines 245-271: getBasicMarketData raises when its request fails (lines
\* 293-295), and the catch of lines 264-270 returns mock data; else
\* collectData is called whatever the price (lines 255 and 262)
collectMarketData(symbol, remote, draw) ==
    IF remote.basic = "fail" THEN getMockData(symbol, draw)
    ELSE collectData(symbol, remote)

\* a call of collectMarketData
CollectMarketData ==
    /\ \E symbol \in {"BTCUSDT", "ETHUSDT"}, remote \in RemoteAnswers, draw \in MockDraws :
          collected' = [pc |-> "returned", symbol |-> symbol, remote |-> remote,
                        marketData |-> collectMarketData(symbol, remote, draw)]
    /\ UNCHANGED <<http, notifier, snapshots, engine, invoked>>
    /\ UNCHANGED pipelineVars

----------------------------------------------------------------------------
(* The DataCollector's client and its interceptors.  Time is in units of   *)
(* 100 ms.  The client keeps lastRequestTime; the model keeps               *)
(* sinceLastRequest = now - lastRequestTime, saturating at rateLimitDelay  *)
(* (the interceptor only tests it against rateLimitDelay), and for every   *)
(* timer the time left until it fires.                                     *)

\* 100 ms
rateLimitDelay == 1

\* the retry-after headers the exchange sends with a 429, in seconds; a
\* second is 10 units
RetryAfterSeconds == {0, 1}

Requests == 1..MaxRequests

NoRequest == [pc |-> "none", timer |-> 0, sends |-> 0]

\* fewer than two requests were released
NoGap == 0 - 1

\* lastGap: the time between the request released last and the one released
\* before it (history); rateLimited: the 429 answers given so far
IdleClient ==
    [sinceLastRequest |-> rateLimitDelay, requestCount |-> 0, lastGap |-> NoGap,
     rateLimited |-> 0,
     request |-> [id \in Requests |-> NoRequest]]

\* the end of the request interceptor (lines 33-36): the request goes out
Release(cl, id) ==
    [cl EXCEPT !.lastGap = IF cl.requestCount = 0 THEN NoGap ELSE cl.sinceLastRequest,
               !.sinceLastRequest = 0,
               !.requestCount = @ + 1,
               !.request[id] = [pc |-> "sent", timer |-> 0, sends |-> @.sends + 1]]

\* the request interceptor (lines 23-37) up to its await, or to its end when
\* it does not wait
requestInterceptor(cl, id) ==
    LET timeSinceLastRequest == cl.sinceLastRequest
        minDelay == rateLimitDelay
    IN  IF timeSinceLastRequest < minDelay
        THEN [cl EXCEPT !.request[id].pc = "delayed",
                        !.request[id].timer = minDelay - timeSinceLastRequest]
        ELSE Release(cl, id)

\* the response interceptor (lines 39-52): a 429 is answered by waiting
\* retry-after seconds and sending the request again through this client;
\* any other error is passed on
responseInterceptor(cl, id, answer, retryAfter) ==
    IF answer = "ok" THEN [cl EXCEPT !.request[id].pc = "done"]
    ELSE IF answer = "429"
    THEN [cl EXCEPT !.request[id].pc = "backoff", !.request[id].timer = retryAfter * 10,
                    !.rateLimited = @ + 1]
    ELSE [cl EXCEPT !.request[id].pc = "failed"]

ClientUnchanged ==
    /\ UNCHANGED <<collected, notifier, snapshots, engine, invoked>>
    /\ UNCHANGED pipelineVars

\* this.client.get(...): requests are numbered in the order they are made;
\* any number of them may be made at the same moment
Request(id) ==
    /\ http.request[id].pc = "none"
    /\ \A j \in Requests : j < id => http.request[j].pc # "none"
    /\ http' = requestInterceptor(http, id)
    /\ ClientUnchanged

\* the timer of the request interceptor fires (lines 30-36)
DelayElapsed(id) ==
    /\ http.request[id].pc = "delayed"
    /\ http.request[id].timer = 0
    /\ http' = Release(http, id)
    /\ ClientUnchanged

\* the exchange answers; it gives no more than MaxRateLimited 429 answers
Response(id) ==
    /\ http.request[id].pc = "sent"
    /\ \E answer \in {"ok", "429", "error"}, retryAfter \in RetryAfterSeconds :
          /\ answer = "429" => http.rateLimited < MaxRateLimited
          /\ http' = responseInterceptor(http, id, answer, retryAfter)
    /\ ClientUnchanged

\* the timer of the response interceptor fires: this.client.request(error.config)
\* (line 48), which runs the request interceptor again
BackoffElapsed(id) ==
    /\ http.request[id].pc = "backoff"
    /\ http.request[id].timer = 0
    /\ http' = requestInterceptor(http, id)
    /\ ClientUnchanged

\* 100 ms pass; a timer that is due fires first
ClockTick ==
    /\ \/ \E id \in Requests : http.request[id].pc \in {"delayed", "backoff"}
       \/ http.sinceLastRequest < rateLimitDelay
    /\ \A id \in Requests :
          http.request[id].pc \in {"delayed", "backoff"} => http.request[id].timer > 0
    /\ http' = [http EXCEPT
                  !.sinceLastRequest = Min(@ + 1, rateLimitDelay),
                  !.request = [id \in Requests |->
                      IF http.request[id].pc \in {"delayed", "backoff"}
                      THEN [http.request[id] EXCEPT !.timer = @ - 1]
                      ELSE http.request[id]]]
    /\ ClientUnchanged

----------------------------------------------------------------------------
(* NotificationService.addToQueue and processQueue.  The alerts are        *)
(* numbered in the order they are added.  Time is in units of 250 ms.      *)

\* alerts added to the queue
MaxQueued == MaxNotifications

QueuedAlerts == 1..MaxQueued

\* the calls of processQueue that may be running side by side
Loops == {1, 2}

\* setTimeout(resolve, 1000) of line 255
queueDelay == 4

NoLoop == [pc |-> "none", alert |-> 0, timer |-> 0]

NotEnded == 0 - 1

\* notificationQueue and isProcessing are the fields of lines 11-12; loop is
\* where each running call of processQueue stands.  History: added counts
\* the calls of addToQueue, log lists the alerts passed to sendAlert,
\* outcome says what sendAlert returned for each, sinceEnd is the time since
\* sendAlert last returned, and lastStartGap what sinceEnd was when sendAlert
\* was called last.
IdleNotifier ==
    [notificationQueue |-> << >>, isProcessing |-> FALSE,
     loop |-> [l \in Loops |-> NoLoop],
     added |-> 0, log |-> << >>, outcome |-> [a \in QueuedAlerts |-> "none"],
     sinceEnd |-> NotEnded, lastStartGap |-> NotEnded]

\* Array.prototype.pop in the place of shift
shift_Pop(queue) ==
    [alert |-> queue[Len(queue)], rest |-> SubSeq(queue, 1, Len(queue) - 1)]

\* notificationQueue.shift() of line 252
shift(queue) ==
    [alert |-> Head(queue), rest |-> Tail(queue)]

\* a sendAlert that passes a failure on
sendAlert_Throws(delivered) ==
    IF delivered THEN "true" ELSE "raised"

\* sendAlert (lines 70-110) returns true or false: it catches what its
\* transport raises
sendAlert(delivered) ==
    IF delivered THEN "true" ELSE "false"

\* the loop of lines 251-258 from its test to the await of sendAlert, or
\* through the finally of lines 261-263 when the queue is empty
drain(nt, l) ==
    IF Len(nt.notificationQueue) > 0
    THEN LET s == shift(nt.notificationQueue)
         IN  [nt EXCEPT !.notificationQueue = s.rest,
                        !.loop[l] = [pc |-> "sending", alert |-> s.alert, timer |-> 0],
                        !.log = Append(@, s.alert),
                        !.outcome[s.alert] = "pending",
                        !.lastStartGap = nt.sinceEnd]
    ELSE [nt EXCEPT !.isProcessing = FALSE, !.loop[l] = NoLoop]

\* processQueue (lines 244-265) up to its first await
processQueue(nt) ==
    IF nt.isProcessing \/ Len(nt.notificationQueue) = 0 THEN nt
    ELSE LET l == CHOOSE l \in Loops :
                     /\ nt.loop[l].pc = "none"
                     /\ \A k \in Loops : nt.loop[k].pc = "none" => l <= k
         IN  drain([nt EXCEPT !.isProcessing = TRUE], l)

QueueUnchanged ==
    /\ UNCHANGED <<collected, http, snapshots, engine, invoked>>
    /\ UNCHANGED pipelineVars

\* lines 237-242
addToQueue ==
    /\ notifier.added < MaxQueued
    /\ LET alert == notifier.added + 1
           pushed == [notifier EXCEPT !.notificationQueue = Append(@, alert),
                                      !.added = alert]
       IN  notifier' = IF ~pushed.isProcessing THEN processQueue(pushed) ELSE pushed
    /\ QueueUnchanged

\* sendAlert returns (line 254): the loop goes on to its timer; an error
\* would be caught at line 259 and end the loop through the finally
SendAlertReturned(l) ==
    /\ notifier.loop[l].pc = "sending"
    /\ \E delivered \in {TRUE, FALSE} :
          LET result == sendAlert(delivered)
              alert == notifier.loop[l].alert
              ended == [notifier EXCEPT !.sinceEnd = 0,
                                        !.outcome[alert] =
                                            IF result = "true" THEN "sent" ELSE "failed"]
          IN  notifier' =
                 IF result = "raised"
                 THEN [ended EXCEPT !.isProcessing = FALSE, !.loop[l] = NoLoop]
                 ELSE [ended EXCEPT !.loop[l].pc = "delay", !.loop[l].timer = queueDelay]
    /\ QueueUnchanged

\* the timer of line 255 fires: the loop tests the queue again
QueueDelayElapsed(l) ==
    /\ notifier.loop[l].pc = "delay"
    /\ notifier.loop[l].timer = 0
    /\ notifier' = drain(notifier, l)
    /\ QueueUnchanged

\* 250 ms pass; a timer that is due fires first
QueueClockTick ==
    /\ \/ \E l \in Loops : notifier.loop[l].pc = "delay"
       \/ notifier.sinceEnd \in 0..(queueDelay - 1)
    /\ \A l \in Loops : notifier.loop[l].pc = "delay" => notifier.loop[l].timer > 0
    /\ notifier' = [notifier EXCEPT
                      !.sinceEnd = IF @ = NotEnded THEN @ ELSE Min(@ + 1, queueDelay),
                      !.loop = [l \in Loops |->
                                  IF notifier.loop[l].pc = "delay"
                                  THEN [notifier.loop[l] EXCEPT !.timer = @ - 1]
                                  ELSE notifier.loop[l]]]
    /\ QueueUnchanged

----------------------------------------------------------------------------
(* The e-mails of the monitoring cycles in time (server.ts lines 214-221   *)
(* and 253-272).  Two cycles may overlap; for cycle l, notifier.loop[l] is *)
(* where its call of sendNotification stands, alert the last alert it      *)
(* passed to sendAlert and timer the time since it did, in units of 250 ms *)
(* and saturating at queueDelay.                                           *)

\* line 217: a cycle calls sendNotification for its next alert and awaits
\* saveSnapshot (line 257); notificationQueue is not touched
SendNotificationCalled(l) ==
    /\ notifier.loop[l].pc \in {"none", "returned"}
    /\ notifier.added < MaxQueued
    /\ notifier' = [notifier EXCEPT !.added = @ + 1, !.loop[l].pc = "saving"]
    /\ QueueUnchanged

\* line 261: the snapshot is saved and sendNotification calls sendAlert
CycleSendAlert(l) ==
    /\ notifier.loop[l].pc = "saving"
    /\ LET alert == Len(notifier.log) + 1
       IN  notifier' = [notifier EXCEPT
                          !.loop[l] = [pc |-> "sending", alert |-> alert, timer |-> 0],
                          !.log = Append(@, alert),
                          !.outcome[alert] = "pending"]
    /\ QueueUnchanged

\* lines 261-266: sendAlert returns, the opportunity is broadcast and
\* sendNotification returns to the loop of line 216
CycleSendAlertReturned(l) ==
    /\ notifier.loop[l].pc = "sending"
    /\ \E delivered \in {TRUE, FALSE} :
          notifier' = [notifier EXCEPT
                         !.loop[l].pc = "returned",
                         !.sinceEnd = 0,
                         !.outcome[notifier.loop[l].alert] =
                             IF sendAlert(delivered) = "true" THEN "sent" ELSE "failed"]
    /\ QueueUnchanged

\* 250 ms pass
DeliveryClockTick ==
    /\ \E l \in Loops : notifier.loop[l].alert > 0 /\ notifier.loop[l].timer < queueDelay
    /\ notifier' = [notifier EXCEPT
                      !.sinceEnd = IF @ = NotEnded THEN @ ELSE Min(@ + 1, queueDelay),
                      !.loop = [l \in Loops |->
                                  IF notifier.loop[l].alert > 0
                                  THEN [notifier.loop[l] EXCEPT !.timer = Min(@ + 1, queueDelay)]
                                  ELSE notifier.loop[l]]]
    /\ QueueUnchanged

----------------------------------------------------------------------------
(* SnapshotStorage.  A JavaScript value is a record tagged with its kind   *)
(* (Num, Str, ... above); a file holds JSON text, which has numbers, strings, null, arrays and    *)
(* objects only.  The k-th snapshot saved has the id k (uuidv4 is taken to *)
(* return an id it has not returned before) and is written at time k, so   *)
(* that the modification time of its file is k.                            *)

\* JSON.stringify: a Date is written as its ISO string, a property whose
\* value is undefined is left out, undefined in an array is written as null
RECURSIVE JSONstringify(_)
JSONstringify(v) ==
    CASE v.kind = "Date" -> Str(ToString(v.time))
      [] v.kind = "undefined" -> Null
      [] v.kind = "array" ->
            Arr([i \in 1..Len(v.items) |-> JSONstringify(v.items[i])])
      [] v.kind = "object" ->
            Obj([f \in {g \in DOMAIN v.fields : v.fields[g].kind # "undefined"} |->
                    JSONstringify(v.fields[f])])
      [] OTHER -> v

\* JSON.parse: numbers, strings, null, arrays and plain objects
RECURSIVE JSONparse(_)
JSONparse(text) ==
    CASE text.kind = "array" ->
            Arr([i \in 1..Len(text.items) |-> JSONparse(text.items[i])])
      [] text.kind = "object" ->
            Obj([f \in DOMAIN text.fields |-> JSONparse(text.fields[f])])
      [] OTHER -> text

\* line 10
maxSnapshots == 100

\* what is saved: an opportunity as the engine builds it with the empty
\* market data sendNotification passes (server.ts line 256), and one with
\* market data as the collector returns it
SavedInputs ==
    << [opportunity |->
           Obj([id |-> Str("BREAKOUT_LONG_1"), symbol |-> Str("BTCUSDT"),
                strategy |-> Str("BREAKOUT"), entryPrice |-> Num(43000),
                riskRewardRatio |-> Num(30000), distanceToEntry |-> Num(0),
                timestamp |-> Num(1)]),
        marketData |-> Obj([x \in {} |-> Null])],
       [opportunity |->
           Obj([id |-> Str("PULLBACK_SHORT_2"), symbol |-> Str("ETHUSDT"),
                strategy |-> Str("PULLBACK"), entryPrice |-> Num(2500),
                riskRewardRatio |-> Num(25000), distanceToEntry |-> Num(1000),
                timestamp |-> Num(2)]),
        marketData |->
           Obj([symbol |-> Str("ETHUSDT"), price |-> Num(2500), volume |-> Num(7),
                klines |-> Arr(<<Obj([openTime |-> Num(1), close |-> Num(2499)])>>),
                depth |-> Obj([bids |-> Arr(<< >>), asks |-> Arr(<< >>),
                               timestamp |-> Num(2)])])] >>

\* the input of the k-th save
InputOf(k) == SavedInputs[(k % Len(SavedInputs)) + 1]

\* a snapshot that does not keep the opportunity
snapshotOf_NoOpportunities(snapshotId, opportunity, marketData, now) ==
    Obj([id |-> Str(ToString(snapshotId)),
         timestamp |-> DateOf(now),
         symbol |-> opportunity.fields.symbol,
         marketData |-> marketData,
         opportunities |-> Arr(<< >>),
         expiresAt |-> Num(now + 96)])

\* the snapshot built at lines 28-50; 24 hours are 96 quarters of an hour
snapshotOf(snapshotId, opportunity, marketData, now) ==
    Obj([id |-> Str(ToString(snapshotId)),
         timestamp |-> DateOf(now),
         symbol |-> opportunity.fields.symbol,
         marketData |-> marketData,
         analysis |-> Obj([symbol |-> opportunity.fields.symbol,
                           timestamp |-> opportunity.fields.timestamp,
                           price |-> opportunity.fields.entryPrice,
                           strategies |-> Arr(<< >>)]),
         opportunities |-> Arr(<<opportunity>>),
         expiresAt |-> Num(now + 96)])

\* the text writeFile wrote to the file of the k-th snapshot (line 53); a
\* file is written once
Written(k) ==
    JSONstringify(snapshotOf(k, InputOf(k).opportunity, InputOf(k).marketData, k))

NoOp == [op |-> "none"]

\* the calls of cleanupOldSnapshots that may be running side by side
Sweeps == {1, 2}

NoSweep == [pc |-> "none", listing |-> {}, filesToDelete |-> {}]

\* files: the .json files of the storage directory, by id; saved: the
\* snapshots saved so far; pc, listing and filesToDelete: where the
\* cleanupOldSnapshots started by the last save stands; lastOp: the last
\* call and what it returned; expired: the files modified more than
\* retentionHours ago; sweeps: the calls of cleanupOldSnapshots that run
\* side by side when saves do not wait for them, and lastSweep: how the
\* sweep that ended last ended
EmptyStorage ==
    [files |-> {}, saved |-> 0, pc |-> "idle", filesToDelete |-> {}, lastOp |-> NoOp,
     expired |-> {}, sweeps |-> [s \in Sweeps |-> NoSweep], lastSweep |-> "none"]

\* the snapshots a workload saves: few when the age of the files matters
SaveBudget == IF workload = "retention" THEN MaxNotifications ELSE MaxSaves

mtime(file) == file

\* fileStats.sort(...) by mtime, newest first, and slice(from) (lines 134-137)
slice_Oldest(files, from) ==
    {f \in files : Cardinality({g \in files : mtime(g) < mtime(f)}) >= from}

slice(files, from) ==
    {f \in files : Cardinality({g \in files : mtime(g) > mtime(f)}) >= from}

StorageUnchanged ==
    /\ UNCHANGED <<collected, http, notifier, engine, invoked>>
    /\ UNCHANGED pipelineVars

\* saveSnapshot (lines 26-67), one save after the other: the file is
\* written, cleanupOldSnapshots is started and the id is returned; or
\* writeFile fails and the error is passed on
saveSnapshot ==
    /\ snapshots.pc = "idle"
    /\ snapshots.saved < SaveBudget
    /\ \E written \in {TRUE, FALSE} :
          LET snapshotId == snapshots.saved + 1
          IN  snapshots' =
                 IF written
                 THEN [snapshots EXCEPT !.files = @ \cup {snapshotId},
                                        !.saved = snapshotId,
                                        !.pc = "readdir",
                                        !.lastOp = [op |-> "save", id |-> snapshotId]]
                 ELSE [snapshots EXCEPT !.lastOp = [op |-> "saveFailed"]]
    /\ StorageUnchanged

\* cleanupOldSnapshots, lines 119-137: the directory is read and, when it
\* holds more than maxSnapshots files, they are sorted
CleanupListed ==
    /\ snapshots.pc = "readdir"
    /\ LET jsonFiles == snapshots.files
       IN  snapshots' =
              IF Cardinality(jsonFiles) <= maxSnapshots
              THEN [snapshots EXCEPT !.pc = "idle", !.lastOp = NoOp]
              ELSE [snapshots EXCEPT !.pc = "unlink",
                                     !.filesToDelete = slice(jsonFiles, maxSnapshots),
                                     !.lastOp = NoOp]
    /\ StorageUnchanged

\* lines 140-147: the files beyond the cap are unlinked one by one
CleanupUnlinked ==
    /\ snapshots.pc = "unlink"
    /\ \E file \in snapshots.filesToDelete :
          LET rest == snapshots.filesToDelete \ {file}
          IN  snapshots' = [snapshots EXCEPT !.files = @ \ {file},
                                             !.filesToDelete = rest,
                                             !.pc = IF rest = {} THEN "idle" ELSE "unlink",
                                             !.lastOp = NoOp]
    /\ StorageUnchanged

\* saveSnapshot while sweeps started by earlier saves may still be running:
\* the file is written and one more cleanupOldSnapshots is started
saveSnapshotConcurrently ==
    /\ snapshots.saved < MaxSaves
    /\ \E s \in Sweeps :
          /\ snapshots.sweeps[s].pc = "none"
          /\ \A r \in Sweeps : snapshots.sweeps[r].pc = "none" => s <= r
          /\ LET snapshotId == snapshots.saved + 1
             IN  snapshots' = [snapshots EXCEPT
                                 !.files = @ \cup {snapshotId},
                                 !.saved = snapshotId,
                                 !.sweeps[s] = [NoSweep EXCEPT !.pc = "readdir"],
                                 !.lastOp = [op |-> "save", id |-> snapshotId]]
    /\ StorageUnchanged

\* lines 119-124: readdir returns the files there are at that moment; the
\* sweep returns when they are no more than maxSnapshots
SweepListed(s) ==
    /\ snapshots.sweeps[s].pc = "readdir"
    /\ LET jsonFiles == snapshots.files
       IN  snapshots' =
              IF Cardinality(jsonFiles) <= maxSnapshots
              THEN [snapshots EXCEPT !.sweeps[s] = NoSweep, !.lastSweep = "returned",
                                     !.lastOp = NoOp]
              ELSE [snapshots EXCEPT !.sweeps[s].pc = "stat",
                                     !.sweeps[s].listing = jsonFiles,
                                     !.lastOp = NoOp]
    /\ StorageUnchanged

\* lines 127-137: Promise.all of the stats of the files listed.  The stat
\* of a file that was unlinked meanwhile fails, Promise.all rejects, and the
\* catch of lines 151-153 logs the error: the sweep ends without deleting
SweepStatted(s) ==
    /\ snapshots.sweeps[s].pc = "stat"
    /\ LET listing == snapshots.sweeps[s].listing
       IN  snapshots' =
              IF listing \subseteq snapshots.files
              THEN [snapshots EXCEPT !.sweeps[s].pc = "unlink",
                                     !.sweeps[s].filesToDelete = slice(listing, maxSnapshots),
                                     !.lastOp = NoOp]
              ELSE [snapshots EXCEPT !.sweeps[s] = NoSweep, !.lastSweep = "failed",
                                     !.lastOp = NoOp]
    /\ StorageUnchanged

\* lines 140-149: the next file beyond the cap is unlinked (an unlink that
\* fails is logged, lines 144-146); after the last one the sweep returns
SweepUnlinked(s) ==
    /\ snapshots.sweeps[s].pc = "unlink"
    /\ LET filesToDelete == snapshots.sweeps[s].filesToDelete
       IN  snapshots' =
              IF filesToDelete = {}
              THEN [snapshots EXCEPT !.sweeps[s] = NoSweep, !.lastSweep = "returned",
                                     !.lastOp = NoOp]
              ELSE LET file == CHOOSE f \in filesToDelete :
                                  \A g \in filesToDelete : mtime(g) <= mtime(f)
                   IN  [snapshots EXCEPT !.files = @ \ {file},
                                         !.sweeps[s].filesToDelete = @ \ {file},
                                         !.lastOp = NoOp]
    /\ StorageUnchanged

\* retentionHours (line 11) pass without a save: every file stored is now
\* older than the retention window
RetentionElapsed ==
    /\ snapshots.pc = "idle"
    /\ snapshots.files \ snapshots.expired # {}
    /\ snapshots' = [snapshots EXCEPT !.expired = snapshots.files, !.lastOp = NoOp]
    /\ StorageUnchanged

\* the cron job of server.ts lines 304-307, every six hours: the cooler's
\* cleanupExpiredEntries, then cleanupOldSnapshots up to its readdir
CronCleanup ==
    /\ running = NoCycle
    /\ snapshots.pc = "idle"
    /\ cooldownMap' = [k \in Keys |->
          IF cooldownMap[k] # NoEntry /\ cooldownMap[k].age > cooldownPeriod
          THEN NoEntry ELSE cooldownMap[k]]
    /\ snapshots' = [snapshots EXCEPT !.pc = "readdir", !.lastOp = NoOp]
    /\ UNCHANGED <<workload, notificationStats, adaptiveThresholds, calls, last,
                   sinceAccepted>>
    /\ UNCHANGED serverVars
    /\ UNCHANGED <<collected, http, notifier, engine, invoked>>

\* the ids asked for: the oldest and the newest snapshot saved, the ones on
\* either side of the cap, and an id that was never returned
AskedIds ==
    {k \in {1, snapshots.saved - maxSnapshots, snapshots.saved - maxSnapshots + 1,
            snapshots.saved, snapshots.saved + 1} : k >= 1}

\* getSnapshot (lines 69-80): the parsed file, or null when it cannot be read
getSnapshot ==
    /\ \E snapshotId \in AskedIds :
          snapshots' = [snapshots EXCEPT !.lastOp =
             [op |-> "get", id |-> snapshotId,
              stored |-> snapshotId \in snapshots.files,
              result |-> IF snapshotId \in snapshots.files
                         THEN JSONparse(Written(snapshotId)) ELSE Null]]
    /\ StorageUnchanged

\* listSnapshots (lines 81-115): the limit most recently modified files,
\* parsed; the ids of the records returned
listSnapshots ==
    /\ \E limit \in {1, 50, maxSnapshots + 1} :
          LET recentFiles == snapshots.files \ slice(snapshots.files, limit)
          IN  snapshots' = [snapshots EXCEPT !.lastOp =
                 [op |-> "list", limit |-> limit,
                  ids |-> {JSONparse(Written(file)).fields.id : file \in recentFiles}]]
    /\ StorageUnchanged


----------------------------------------------------------------------------
(* OpportunityEngine: analyzeMarket and the three strategy builders.       *)
(* Prices, distances and the ATR are in 1/10000 of the quote currency,     *)
(* risk/reward and the costs in 1/10000, volZ in 1/1000, rangePos in 1/100.*)

\* the instruments one cycle analyses, one after the other (server.ts 178-185)
EngineSymbols == {"BTCUSDT", "ETHUSDT"}

\* what the indicators read off a candle series: its length, the mean of its
\* last 20 true ranges, ema20 against ema50, the position of the close in
\* the range of the last 20 candles, the z-score of the last volume, and the
\* sign of the last return; of the series shorter than 50 candles the
\* rising ones are enough
Klines ==
    {k \in [length : {0, 21, 49, 50}, trueRange : {0, 400, 20000},
            ema : {"ABOVE", "BELOW", "EQUAL"}, rangePos : {20, 80},
            volZ : {0, 1504, 2000}, ret1 : {0 - 1, 1}] :
        k.length < 50 => k.ema = "ABOVE" /\ k.rangePos = 20 /\ k.ret1 = 1}

\* the market data of an instrument; klines may be missing
MarketDatas ==
    [symbol : EngineSymbols, price : {1000000}, klines : Klines \cup {Undefined}]

\* x.toFixed(2) of a risk/reward, and of a volZ
toFixed2(x) == ((x + 50) \div 100) * 100
volZtoFixed2(z) == ((z + 5) \div 10) * 10

\* lines 136-158; 0 here is null, which the callers test with !atr alike
calculateATR(klines, period) ==
    IF klines.length < period + 2 THEN 0 ELSE klines.trueRange

\* without the length test of lines 161-163 and 170: the indicators of a
\* short series are taken as they come
analyzeTechnicalFramework_NoLengthTest(klines) ==
    LET trend == CASE klines.ema = "ABOVE" -> "UP"
                   [] klines.ema = "BELOW" -> "DOWN"
                   [] OTHER -> "RANGE"
        signal == IF klines.volZ > 1500
                  THEN IF klines.ret1 > 0 THEN "BREAKOUT_UP" ELSE "BREAKOUT_DOWN"
                  ELSE IF klines.rangePos < 30 /\ trend = "UP" THEN "PULLBACK_LONG"
                  ELSE IF klines.rangePos > 70 /\ trend = "DOWN" THEN "PULLBACK_SHORT"
                  ELSE "CHOP"
    IN  [valid |-> TRUE, trend |-> trend, signal |-> signal,
         volZ |-> volZtoFixed2(klines.volZ)]

\* lines 160-220; volZ of a series too short is undefined, and undefined > 1.5
\* is false: 0 here
analyzeTechnicalFramework(klines) ==
    IF klines.length < 50
    THEN [valid |-> FALSE, trend |-> "RANGE", signal |-> "CHOP", volZ |-> 0]
    ELSE LET trend == CASE klines.ema = "ABOVE" -> "UP"
                        [] klines.ema = "BELOW" -> "DOWN"
                        [] OTHER -> "RANGE"
             signal == IF klines.volZ > 1500
                       THEN IF klines.ret1 > 0 THEN "BREAKOUT_UP" ELSE "BREAKOUT_DOWN"
                       ELSE IF klines.rangePos < 30 /\ trend = "UP" THEN "PULLBACK_LONG"
                       ELSE IF klines.rangePos > 70 /\ trend = "DOWN" THEN "PULLBACK_SHORT"
                       ELSE "CHOP"
         IN  [valid |-> TRUE, trend |-> trend, signal |-> signal,
              volZ |-> volZtoFixed2(klines.volZ)]

\* lines 50-85, the part the strategies read
performFullAnalysis(marketData) ==
    [price |-> marketData.price,
     atr20 |-> calculateATR(marketData.klines, 20),
     tfSummary |-> analyzeTechnicalFramework(marketData.klines)]

\* TRADING_COSTS (lines 8-19)
makerFee == 2
takerFee == 4
slippage == 3
getRoundTripCost(entryIsMarket, exitIsMarket, entrySlipOn, exitSlipOn) ==
    (IF entryIsMarket THEN takerFee ELSE makerFee)
    + (IF exitIsMarket THEN takerFee ELSE makerFee)
    + (IF entryIsMarket /\ entrySlipOn THEN slippage ELSE 0)
    + (IF exitIsMarket /\ exitSlipOn THEN slippage ELSE 0)

Max(S) == CHOOSE x \in S : \A y \in S : y <= x
Abs(x) == IF x < 0 THEN 0 - x ELSE x

\* lines 428-436; 0 is null
calculateBaseStopDist(price, atr) ==
    IF atr = 0 THEN 0
    ELSE Max({(atr * 15) \div 10, (price * 12) \div 10000, price \div 1000})

NoOpportunity == [strategy |-> "none"]

\* the levels with the stop below the entry whatever the direction
priceLevels_StopBelow(strategy, direction, price, baseStopDist) ==
    LET long == direction = "LONG"
        entry == CASE strategy = "PULLBACK" ->
                        IF long THEN price - (baseStopDist * 3) \div 10
                        ELSE price + (baseStopDist * 3) \div 10
                   [] OTHER -> price
        stopOffset == IF strategy = "TREND_FOLLOW" THEN (baseStopDist * 12) \div 10
                      ELSE baseStopDist
        stopLoss == entry - stopOffset
        stopDist == Abs(entry - stopLoss)
        tp1 == IF strategy = "TREND_FOLLOW" THEN 30 ELSE 25
        tp2 == IF strategy = "TREND_FOLLOW" THEN 50 ELSE 40
    IN  [entry |-> entry, stopLoss |-> stopLoss, stopDist |-> stopDist,
         takeProfit1 |-> IF long THEN entry + (stopDist * tp1) \div 10
                         ELSE entry - (stopDist * tp1) \div 10,
         takeProfit2 |-> IF long THEN entry + (stopDist * tp2) \div 10
                         ELSE entry - (stopDist * tp2) \div 10]

\* the levels of a strategy: the entry, the stop distance, and the multiples
\* of the stop distance, in tenths, of the two take-profits
\* (lines 277-288, 321-337, 369-384)
priceLevels(strategy, direction, price, baseStopDist) ==
    LET long == direction = "LONG"
        entry == CASE strategy = "PULLBACK" ->
                        IF long THEN price - (baseStopDist * 3) \div 10
                        ELSE price + (baseStopDist * 3) \div 10
                   [] OTHER -> price
        stopOffset == IF strategy = "TREND_FOLLOW" THEN (baseStopDist * 12) \div 10
                      ELSE baseStopDist
        stopLoss == IF long THEN entry - stopOffset ELSE entry + stopOffset
        stopDist == Abs(entry - stopLoss)
        tp1 == IF strategy = "TREND_FOLLOW" THEN 30 ELSE 25
        tp2 == IF strategy = "TREND_FOLLOW" THEN 50 ELSE 40
    IN  [entry |-> entry, stopLoss |-> stopLoss, stopDist |-> stopDist,
         takeProfit1 |-> IF long THEN entry + (stopDist * tp1) \div 10
                         ELSE entry - (stopDist * tp1) \div 10,
         takeProfit2 |-> IF long THEN entry + (stopDist * tp2) \div 10
                         ELSE entry - (stopDist * tp2) \div 10]

\* grossRR - costR of lines 290-293, 339-342, 386-389
netRROf(strategy, levels) ==
    LET costPct == getRoundTripCost(strategy # "PULLBACK", TRUE, FALSE, TRUE)
        grossRR == (Abs(levels.takeProfit1 - levels.entry) * 10000) \div levels.stopDist
        costR == (costPct * levels.entry) \div levels.stopDist
    IN  grossRR - costR

\* a builder that does not test the net risk/reward it has computed
belowMinimum_NotTested(netRR) == FALSE

\* the builder's own test of lines 295, 344, 393
belowMinimum(netRR) == netRR < engineMinNetRR

\* the filter of line 33, on the rounded net risk/reward the candidate carries
isValidCandidate(c) == c.netRR >= engineMinNetRR

\* buildBreakoutStrategy, buildPullbackStrategy, buildTrendFollowStrategy
\* (lines 273-424) at the millisecond now
buildStrategy(strategy, direction, price, analysis, marketData, now) ==
    LET baseStopDist == calculateBaseStopDist(price, analysis.atr20)
        levels == priceLevels(strategy, direction, price, baseStopDist)
        netRR == netRROf(strategy, levels)
    IN  IF baseStopDist = 0 THEN NoOpportunity
        ELSE IF belowMinimum(netRR) THEN NoOpportunity
        ELSE [id |-> <<strategy, direction, now>>,
              symbol |-> marketData.symbol,
              strategy |-> strategy,
              direction |-> direction,
              entry |-> levels.entry,
              stopLoss |-> levels.stopLoss,
              takeProfit1 |-> levels.takeProfit1,
              takeProfit2 |-> levels.takeProfit2,
              netRR |-> toFixed2(netRR),
              confidence |-> IF strategy = "PULLBACK" THEN "HIGH" ELSE "MEDIUM"]

\* the sequence of the members of a sequence that are opportunities
SelectOpportunities(seq) == SelectSeq(seq, LAMBDA o : o # NoOpportunity)

\* lines 87-133
generateCandidateStrategies(analysis, marketData, now) ==
    LET price == analysis.price
        tf == analysis.tfSummary
        breakout ==
            IF tf.signal \in {"BREAKOUT_UP", "BREAKOUT_DOWN"} /\ tf.volZ > 1500
            THEN buildStrategy("BREAKOUT",
                               IF tf.signal = "BREAKOUT_UP" THEN "LONG" ELSE "SHORT",
                               price, analysis, marketData, now)
            ELSE NoOpportunity
        pullback ==
            IF tf.signal \in {"PULLBACK_LONG", "PULLBACK_SHORT"}
            THEN buildStrategy("PULLBACK",
                               IF tf.signal = "PULLBACK_LONG" THEN "LONG" ELSE "SHORT",
                               price, analysis, marketData, now)
            ELSE NoOpportunity
        trendFollow ==
            IF tf.trend # "RANGE"
            THEN buildStrategy("TREND_FOLLOW",
                               IF tf.trend = "UP" THEN "LONG" ELSE "SHORT",
                               price, analysis, marketData, now)
            ELSE NoOpportunity
    IN  IF price = 0 \/ analysis.atr20 = 0 THEN <<>>
        ELSE SelectOpportunities(<<breakout, pullback, trendFollow>>)

confOrder(confidence) ==
    CASE confidence = "HIGH" -> 3
      [] confidence = "MEDIUM" -> 2
      [] confidence = "LOW" -> 1
      [] OTHER -> 0

\* the comparison of lines 34-39 puts b before a
Before(b, a) ==
    \/ confOrder(b.confidence) > confOrder(a.confidence)
    \/ confOrder(b.confidence) = confOrder(a.confidence) /\ b.netRR > a.netRR

\* Array.prototype.sort with that comparison: stable
RECURSIVE sort(_)
sort(seq) ==
    IF seq = <<>> THEN <<>>
    ELSE LET first == CHOOSE i \in 1..Len(seq) :
                         /\ \A j \in 1..Len(seq) : ~Before(seq[j], seq[i])
                         /\ \A j \in 1..(i - 1) : Before(seq[i], seq[j])
             rest == [j \in 1..(Len(seq) - 1) |-> IF j < first THEN seq[j] ELSE seq[j + 1]]
         IN  <<seq[first]>> \o sort(rest)

\* analyzeMarket (lines 21-48): whatever is raised inside is caught and the
\* call returns no candidate; reading the length of klines that are missing
\* raises (line 54)
analyzeMarket(marketData, now) ==
    IF marketData.klines = Undefined
    THEN [raised |-> FALSE, caught |-> TRUE, validCandidates |-> <<>>]
    ELSE LET analysis == performFullAnalysis(marketData)
             candidates == generateCandidateStrategies(analysis, marketData, now)
         IN  [raised |-> FALSE, caught |-> FALSE,
              validCandidates |->
                  sort(SelectSeq(candidates, isValidCandidate))]

NotAnalysed == [pc |-> "idle"]
IdleEngine == [now |-> 0, analysed |-> NotAnalysed, generated |-> {}, done |-> {}]

\* the analysis loop of performMonitoringCycle (server.ts 178-185) calls
\* analyzeMarket for the next instrument of the cycle
AnalyzeMarket ==
    /\ \E marketData \in MarketDatas :
          /\ marketData.symbol \notin engine.done
          /\ LET ret == analyzeMarket(marketData, engine.now)
             IN  engine' = [engine EXCEPT
                    !.analysed = [pc |-> "returned", marketData |-> marketData,
                                  ret |-> ret],
                    !.generated = @ \cup {[id |-> ret.validCandidates[i].id,
                                           symbol |-> marketData.symbol] :
                                             i \in 1..Len(ret.validCandidates)},
                    !.done = @ \cup {marketData.symbol}]
    /\ UNCHANGED <<collected, http, notifier, snapshots, invoked>>
    /\ UNCHANGED pipelineVars

\* a millisecond of Date.now() passes
MillisecondPassed ==
    /\ engine.now < MaxClock
    /\ engine' = [engine EXCEPT !.now = @ + 1]
    /\ UNCHANGED <<collected, http, notifier, snapshots, invoked>>
    /\ UNCHANGED pipelineVars

----------------------------------------------------------------------------
(* Methods that keep no state, called on arguments of any value:           *)
(* RiskAssessor.assessRisk and detectAbnormalMarket,                       *)
(* DeduplicationCooler.mergeSimilarSignals.                                *)

NotInvoked == [method |-> "none"]

\* the other service variables, and the pipeline, are left alone
InvokedUnchanged ==
    /\ UNCHANGED <<collected, http, notifier, snapshots, engine>>
    /\ UNCHANGED pipelineVars

\* risk factors on both sides of each threshold: net risk/reward in 1/10000,
\* volatility in 1/10000, liquidity in thousands of dollars, market condition
\* in 1/100
AnyRiskFactors ==
    [netRR : {0, 19999, 20000, 30000, 50000}, volatility : {100, 500, 501},
     liquidity : {999, 1000, 6000}, marketCondition : {49, 50, 100}]

\* part_007 lines 47-69; Math.round of a positive score
calculateRiskScore(factors) ==
    LET netRRPart == IF factors.netRR >= minNetRR
                     THEN (4000 * Min(factors.netRR, 30000)) \div 30000 ELSE 0
        volatilityPart == IF factors.volatility <= maxVolatilityThreshold
                          THEN (2500 * (maxVolatilityThreshold - factors.volatility))
                                 \div maxVolatilityThreshold
                          ELSE 0
        liquidityPart == IF factors.liquidity >= minLiquidityThreshold
                         THEN (2000 * Min(factors.liquidity, minLiquidityThreshold * 5))
                                 \div (minLiquidityThreshold * 5)
                         ELSE 0
        conditionPart == 15 * factors.marketCondition
    IN  (netRRPart + volatilityPart + liquidityPart + conditionPart + 50) \div 100

\* part_007 lines 11-30, on the factors calculateRiskFactors has gathered
assessRisk(factors) ==
    [riskScore |-> calculateRiskScore(factors),
     isAcceptable |-> isRiskAcceptable(factors.netRR, factors),
     factors |-> factors]

\* a call of assessRisk
AssessRiskCalled ==
    /\ \E factors \in AnyRiskFactors :
          invoked' = [method |-> "assessRisk", ret |-> assessRisk(factors)]
    /\ InvokedUnchanged

\* the alerts handed to mergeSimilarSignals: distances to entry of 0, 0.09%
\* and 0.15%, in 1/100000; the opportunity ids are the positions in the list
AlertShapes ==
    [symbol : {"BTCUSDT", "ETHUSDT"}, distanceToEntry : {0, 90, 150},
     level : {"WATCH", "FIRED"}]

AlertLists ==
    UNION {{[i \in 1..n |-> [opportunityId |-> i, symbol |-> shapes[i].symbol,
                            distanceToEntry |-> shapes[i].distanceToEntry,
                            level |-> shapes[i].level]] :
              shapes \in [1..n -> AlertShapes]} : n \in 0..MaxAlerts}

\* DeduplicationCooler.js lines 126-133
compareLevels(level1, level2) == levelOrder(level1) - levelOrder(level2)

\* the filter of lines 109-112: the positions of the alerts similar to alert
similarTo(alerts, alert, processed) ==
    {j \in 1..Len(alerts) :
        /\ alerts[j].opportunityId \notin processed
        /\ alerts[j].symbol = alert.symbol
        /\ Abs(alerts[j].distanceToEntry - alert.distanceToEntry) < 100}

\* the reduce of line 115: the first of the alerts of the highest level
bestAlert(alerts, similar) ==
    LET first == CHOOSE j \in similar :
                    /\ \A k \in similar : compareLevels(alerts[k].level, alerts[j].level) <= 0
                    /\ \A k \in similar : k < j =>
                          compareLevels(alerts[j].level, alerts[k].level) > 0
    IN  alerts[first]

\* the loop of lines 106-123 from position i on
RECURSIVE mergeFrom(_, _, _, _)
mergeFrom(alerts, i, merged, processed) ==
    IF i > Len(alerts) THEN merged
    ELSE IF alerts[i].opportunityId \in processed
    THEN mergeFrom(alerts, i + 1, merged, processed)
    ELSE LET similar == similarTo(alerts, alerts[i], processed)
         IN  IF Cardinality(similar) > 1
             THEN mergeFrom(alerts, i + 1, Append(merged, bestAlert(alerts, similar)),
                            processed \cup {alerts[j].opportunityId : j \in similar})
             ELSE mergeFrom(alerts, i + 1, Append(merged, alerts[i]),
                            processed \cup {alerts[i].opportunityId})

\* lines 101-125
mergeSimilarSignals(alerts) ==
    IF Len(alerts) <= 1 THEN alerts ELSE mergeFrom(alerts, 1, <<>>, {})

\* a call of mergeSimilarSignals
MergeSimilarSignalsCalled ==
    /\ invoked = NotInvoked
    /\ \E alerts \in AlertLists :
          invoked' = [method |-> "mergeSimilarSignals", alerts |-> alerts,
                      ret |-> mergeSimilarSignals(alerts)]
    /\ InvokedUnchanged

\* The data of a cycle from the collector to the engine (server.ts lines
\* 149 and 181).  The engine's view of the candles collected: no candle, or
\* a series of the exchange, long enough, with its indicators
CandlesOf(klines) ==
    IF klines = << >>
    THEN {k \in Klines : k.length = 0 /\ k.trueRange = 0 /\ k.volZ = 0}
    ELSE {k \in Klines : k.length = 50 /\ k.trueRange = 400 /\ k.rangePos = 20}

\* line 149: the cycle collects the data of an instrument
CollectForAnalysis ==
    /\ collected = NotCollected
    /\ CollectMarketData

\* line 181: the cycle passes what it collected to analyzeMarket; prices are
\* in 1/10000 in the engine
AnalyzeCollected ==
    /\ collected # NotCollected
    /\ engine.analysed = NotAnalysed
    /\ \E klines \in CandlesOf(collected.marketData.klines) :
          LET marketData == [symbol |-> collected.marketData.symbol,
                             price |-> collected.marketData.price * 10000,
                             klines |-> klines]
              ret == analyzeMarket(marketData, engine.now)
          IN  engine' = [engine EXCEPT
                 !.analysed = [pc |-> "returned", marketData |-> marketData, ret |-> ret],
                 !.generated = @ \cup {[id |-> ret.validCandidates[i].id,
                                        symbol |-> marketData.symbol] :
                                          i \in 1..Len(ret.validCandidates)},
                 !.done = @ \cup {marketData.symbol}]
    /\ UNCHANGED <<collected, http, notifier, snapshots, invoked>>
    /\ UNCHANGED pipelineVars

\* the opportunities classifyAlert may be given: distances on both sides of
\* 1.5 x the largest ATR, of readyThreshold and of watchThreshold
ClassifiedOpportunities ==
    [symbol : {"BTCUSDT", "ETHUSDT"}, strategy : {"BREAKOUT", "PULLBACK"},
     distanceToEntry : {0 - 2001, 0 - 501, 0 - 500, 0 - 375, 0, 300, 375, 376,
                        500, 501, 2000, 2001}]

\* server.ts lines 390-411, with the ATR calculateATR returned
classifyAlert(opportunity, atr) ==
    [level |-> determineAlertLevel(opportunity.distanceToEntry, atr),
     distanceToEntry |-> opportunity.distanceToEntry,
     atr |-> atr,
     opportunity |-> opportunity]

\* a call of classifyAlert; calculateATR (lines 427-438) draws the ATR
ClassifyAlertCalled ==
    /\ \E opportunity \in ClassifiedOpportunities, atr \in ATRs :
          invoked' = [method |-> "classifyAlert",
                      ret |-> classifyAlert(opportunity, atr)]
    /\ InvokedUnchanged

\* what calculateVolatility and assessMarketCondition may return to
\* detectAbnormalMarket, volatility in 1/10000 and market condition in 1/100,
\* or a rejection. Lines 78-91 are placeholders ("simplified implementation")
\* that return 1-4% and 0.6-1.0; the readings cover that range and both sides
\* of the thresholds the calculations they stand for can cross.
MarketReadings ==
    [volatility : {400, 1000, 1001}, marketCondition : {29, 30, 100},
     failed : {TRUE, FALSE}]

\* part_007 lines 93-103
detectAbnormalMarket(reading) ==
    IF reading.failed THEN TRUE
    ELSE \/ reading.volatility > maxVolatilityThreshold * 2
         \/ reading.marketCondition < 30

\* a call of detectAbnormalMarket, between the steps of the cycles
DetectAbnormalMarketCalled ==
    /\ running = NoCycle
    /\ \E reading \in MarketReadings :
          invoked' = [method |-> "detectAbnormalMarket",
                      ret |-> detectAbnormalMarket(reading)]
    /\ InvokedUnchanged

----------------------------------------------------------------------------
(* The configuration read from the environment, and start() and stop().    *)

\* process.env: MONITOR_INTERVAL_SECONDS, MIN_NET_RR, SYMBOLS and TO_EMAIL
AllEnvironments ==
    [interval : {"30", "0", "abc"}, minNetRR : {"2.0", "1.0", "0.5", "abc"},
     symbols : {"", "BTCUSDT"}, recipients : {"", "a@b.c"}]

DefaultEnvironment ==
    [interval |-> "30", minNetRR |-> "2.0", symbols |-> "BTCUSDT", recipients |-> "a@b.c"]

\* the environments of a workload: only the start-up workload varies them
Environments ==
    IF workload = "lifecycle" THEN AllEnvironments ELSE {DefaultEnvironment}

NaN == [nan |-> TRUE, value |-> 0]
Number(n) == [nan |-> FALSE, value |-> n]

\* parseInt(text, 10) of the texts above
parseInt(text) ==
    CASE text = "30" -> Number(30)
      [] text = "0" -> Number(0)
      [] OTHER -> NaN

\* parseFloat of the texts above, in units of 1/10000
parseFloat(text) ==
    CASE text = "2.0" -> Number(20000)
      [] text = "1.0" -> Number(10000)
      [] text = "0.5" -> Number(5000)
      [] OTHER -> NaN

\* a < b of JavaScript: false when either is NaN
LessThan(a, b) == ~a.nan /\ ~b.nan /\ a.value < b.value

\* part_000 lines 46-58: an empty SYMBOLS gives the default instruments;
\* the numbers of instruments and of recipients
config(env) ==
    [monitoring |-> [interval |-> parseInt(env.interval),
                     symbols |-> IF env.symbols = "" THEN 15 ELSE 1],
     risk |-> [minNetRR |-> parseFloat(env.minNetRR)],
     email |-> [recipients |-> IF env.recipients = "" THEN 0 ELSE 1]]

\* part_000 lines 83-99: the errors found
validateConfig(cfg) ==
    {e \in {"TO_EMAIL", "symbol", "MIN_NET_RR"} :
        \/ e = "TO_EMAIL" /\ cfg.email.recipients = 0
        \/ e = "symbol" /\ cfg.monitoring.symbols = 0
        \/ e = "MIN_NET_RR" /\ LessThan(cfg.risk.minNetRR, Number(10000))}

\* the monitor as its constructor leaves it; stop is how far stop() has come
Constructed(env) ==
    [pc |-> "constructed", env |-> env, stop |-> "no"]

\* start() is called (lines 274-285): it raises when validateConfig finds an
\* error, and goes on to test the mail service when not
Start ==
    /\ lifecycle.pc = "constructed"
    /\ running = NoCycle
    /\ lifecycle' = [lifecycle EXCEPT !.pc =
          IF validateConfig(config(lifecycle.env)) # {} THEN "failed" ELSE "testing"]
    /\ UNCHANGED <<workload, coolerVars, calls, last, sinceAccepted, cycle, running,
                   monitoringInterval>>
    /\ UNCHANGED serviceVars

\* testConnection has returned, true or false (lines 285-288), and the server
\* cannot listen (lines 291-298): start() raises
ListenFailed ==
    /\ lifecycle.pc = "testing"
    /\ running = NoCycle
    /\ lifecycle' = [lifecycle EXCEPT !.pc = "failed"]
    /\ UNCHANGED <<workload, coolerVars, calls, last, sinceAccepted, cycle, running,
                   monitoringInterval>>
    /\ UNCHANGED serviceVars

\* stop() is called once start() has been (lines 319-332): the interval
\* timer is cleared if it is set, and stop() waits for the server to close
StopCalled ==
    /\ lifecycle.pc # "constructed"
    /\ lifecycle.stop = "no"
    /\ running = NoCycle
    /\ monitoringInterval' = FALSE
    /\ lifecycle' = [lifecycle EXCEPT !.stop = "closing"]
    /\ UNCHANGED <<workload, coolerVars, calls, last, sinceAccepted, cycle, running>>
    /\ UNCHANGED serviceVars

\* the server has closed and stop() returns (lines 333-340)
StopReturned ==
    /\ lifecycle.stop = "closing"
    /\ running = NoCycle
    /\ lifecycle' = [lifecycle EXCEPT !.stop = "returned"]
    /\ UNCHANGED <<workload, coolerVars, calls, last, sinceAccepted, cycle, running,
                   monitoringInterval>>
    /\ UNCHANGED serviceVars

----------------------------------------------------------------------------

InitCooler ==
    /\ cooldownMap = [k \in Keys |-> NoEntry]
    /\ notificationStats = [s \in AllSymbols |-> 0]
    /\ adaptiveThresholds = [s \in AllSymbols |-> 0]
    /\ calls = [c \in Callers |-> NoCall]
    /\ last = None
    /\ sinceAccepted = [k \in Keys |-> Never]
    /\ cycle = [c \in Cycles |-> IdleCycle]
    /\ running = NoCycle
    /\ monitoringInterval = FALSE
    /\ lifecycle \in {Constructed(env) : env \in Environments}
    /\ collected = NotCollected
    /\ http = IdleClient
    /\ notifier = IdleNotifier
    /\ snapshots = EmptyStorage
    /\ engine = IdleEngine
    /\ invoked = NotInvoked

Init ==
    /\ workload = "mixed"
    /\ InitCooler

InitLong ==
    /\ workload = "long"
    /\ InitCooler

InitFaulty ==
    /\ workload = "faulty"
    /\ InitCooler

InitCycle ==
    /\ workload = "cycle"
    /\ InitCooler

InitOverlap ==
    /\ workload = "overlap"
    /\ InitCooler

InitBatches ==
    /\ workload = "batches"
    /\ InitCooler

Next ==
    \/ ClientShouldNotify
    \/ AdvanceTime
    \/ cleanupExpiredEntries

Spec == Init /\ [][Next]_vars

SpecLong == InitLong /\ [][Next]_vars

SpecFaulty == InitFaulty /\ [][Next]_vars

\* the mixed and the long workload
SpecThreshold == (Init \/ InitLong) /\ [][Next]_vars

\* the server: its monitoring cycles call the cooler
NextServer ==
    \/ Start
    \/ startMonitoring
    \/ \E c \in Cycles : TimerTick(c)
    \/ \E c \in Cycles : FetchSettled(c)
    \/ \E c \in Cycles : Analyze(c)
    \/ \E c \in Cycles : AssessRisk(c)
    \/ \E c \in Cycles : ClassifyAlert(c)
    \/ \E c \in Cycles : CycleShouldNotify(c)
    \/ \E c \in Cycles : CycleShouldNotifyResume(c)
    \/ \E c \in Cycles : BeginNotification(c)
    \/ \E c \in Cycles : SnapshotSettled(c)
    \/ \E c \in Cycles : AlertSettled(c)
    \/ \E c \in Cycles : PublishStatus(c)
    \/ AdvanceTime
    \/ cleanupExpiredEntries

SpecCycle == InitCycle /\ [][NextServer]_vars

SpecOverlap == InitOverlap /\ [][NextServer]_vars

\* the server with more instruments than fit one batch; without an
\* opportunity a cycle fetches, analyses and publishes its status
NextBatches ==
    \/ Start
    \/ startMonitoring
    \/ \E c \in Cycles : TimerTick(c)
    \/ \E c \in Cycles : FetchSettled(c)
    \/ \E c \in Cycles : BatchDelayElapsed(c)
    \/ \E c \in Cycles : Analyze(c)
    \/ \E c \in Cycles : PublishStatus(c)

SpecBatches == InitBatches /\ [][NextBatches]_vars

\* start() under every environment, and stop() at any point of it
InitLifecycle ==
    /\ workload = "lifecycle"
    /\ InitCooler

NextLifecycle ==
    \/ Start
    \/ ListenFailed
    \/ startMonitoring
    \/ StopCalled
    \/ StopReturned
    \/ \E c \in Cycles : TimerTick(c)
    \/ \E c \in Cycles : FetchSettled(c)
    \/ \E c \in Cycles : Analyze(c)
    \/ \E c \in Cycles : PublishStatus(c)

SpecLifecycle == InitLifecycle /\ [][NextLifecycle]_vars

\* the analyses of one cycle, of any market data
InitEngine ==
    /\ workload = "engine"
    /\ InitCooler

NextEngine ==
    \/ AnalyzeMarket
    \/ MillisecondPassed

SpecEngine == InitEngine /\ [][NextEngine]_vars

\* calls of assessRisk on any risk factors
InitRisk ==
    /\ workload = "risk"
    /\ InitCooler

NextRisk == AssessRiskCalled

SpecRisk == InitRisk /\ [][NextRisk]_vars

\* calls of mergeSimilarSignals on any list of alerts
InitMerge ==
    /\ workload = "merge"
    /\ InitCooler

NextMerge == MergeSimilarSignalsCalled

SpecMerge == InitMerge /\ [][NextMerge]_vars

\* the monitoring cycles, and calls of detectAbnormalMarket between their steps
InitBreaker ==
    /\ workload = "breaker"
    /\ InitCooler

NextBreaker ==
    \/ NextServer
    \/ DetectAbnormalMarketCalled

SpecBreaker == InitBreaker /\ [][NextBreaker]_vars

\* calls of classifyAlert, whatever the distance and the ATR drawn
InitClassify ==
    /\ workload = "classify"
    /\ InitCooler

NextClassify == ClassifyAlertCalled

SpecClassify == InitClassify /\ [][NextClassify]_vars

\* the data of an instrument collected, whatever the exchange answers, and
\* analysed
InitSynthesized ==
    /\ workload = "synthesized"
    /\ InitCooler

NextSynthesized ==
    \/ CollectForAnalysis
    \/ AnalyzeCollected

SpecSynthesized == InitSynthesized /\ [][NextSynthesized]_vars

\* calls of collectMarketData, whatever the exchange answers
InitCollect ==
    /\ workload = "collect"
    /\ InitCooler

NextCollect == CollectMarketData

SpecCollect == InitCollect /\ [][NextCollect]_vars

\* requests through the DataCollector's client
InitClient ==
    /\ workload = "client"
    /\ InitCooler

NextClient ==
    \/ \E id \in Requests : Request(id)
    \/ \E id \in Requests : DelayElapsed(id)
    \/ \E id \in Requests : Response(id)
    \/ \E id \in Requests : BackoffElapsed(id)
    \/ ClockTick

SpecClient == InitClient /\ [][NextClient]_vars

\* alerts added to the notification queue at any moment
InitQueue ==
    /\ workload = "queue"
    /\ InitCooler

NextQueue ==
    \/ addToQueue
    \/ \E l \in Loops : SendAlertReturned(l)
    \/ \E l \in Loops : QueueDelayElapsed(l)
    \/ QueueClockTick

SpecQueue == InitQueue /\ [][NextQueue]_vars

\* the e-mails of two monitoring cycles that may overlap, in time
InitDelivery ==
    /\ workload = "delivery"
    /\ InitCooler

NextDelivery ==
    \/ \E l \in Loops : SendNotificationCalled(l)
    \/ \E l \in Loops : CycleSendAlert(l)
    \/ \E l \in Loops : CycleSendAlertReturned(l)
    \/ DeliveryClockTick

SpecDelivery == InitDelivery /\ [][NextDelivery]_vars

\* snapshots saved one after the other, read and listed at any moment
InitStorage ==
    /\ workload = "storage"
    /\ InitCooler

NextStorage ==
    \/ saveSnapshot
    \/ CleanupListed
    \/ CleanupUnlinked
    \/ getSnapshot
    \/ listSnapshots

SpecStorage == InitStorage /\ [][NextStorage]_vars

\* saves that do not wait for the sweeps of the saves before them
InitSweeps ==
    /\ workload = "sweeps"
    /\ InitCooler

NextSweeps ==
    \/ saveSnapshotConcurrently
    \/ \E s \in Sweeps : SweepListed(s)
    \/ \E s \in Sweeps : SweepStatted(s)
    \/ \E s \in Sweeps : SweepUnlinked(s)

SpecSweeps == InitSweeps /\ [][NextSweeps]_vars

\* a few snapshots that grow old while the cron job runs again and again
InitRetention ==
    /\ workload = "retention"
    /\ InitCooler

NextRetention ==
    \/ saveSnapshot
    \/ CleanupListed
    \/ RetentionElapsed
    \/ CronCleanup
    \/ getSnapshot
    \/ listSnapshots

\* the cron job fires again and again and its sweep goes on
SpecRetention ==
    /\ InitRetention /\ [][NextRetention]_vars
    /\ WF_vars(CronCleanup)
    /\ WF_vars(CleanupListed)

\* every call of sendAlert returns, timers fire and time passes
SpecQueueFair ==
    /\ SpecQueue
    /\ WF_vars(\E l \in Loops : SendAlertReturned(l))
    /\ WF_vars(\E l \in Loops : QueueDelayElapsed(l))
    /\ WF_vars(QueueClockTick)

----------------------------------------------------------------------------
(* Claims about DeduplicationCooler *)

Rank(level) == IF level = "FIRED" THEN 3 ELSE IF level = "READY" THEN 2 ELSE 1

\* C1: once shouldNotify has returned true for a key, no call for that key
\* returns true before a full cooldown period (30 minutes) has passed: a
\* call that returns true comes a cooldown period or more after the last
\* call that returned true for its key, or is the first one.
C1_AtMostOncePerWindow ==
    (last # None /\ last.ret) =>
        (last.sincePrev = Never \/ last.sincePrev >= cooldownPeriod)

\* a call for a key accepted less than a cooldown period before is suppressed
C1_Witness ==
    /\ last # None
    /\ ~last.ret
    /\ last.sincePrev # Never
    /\ last.sincePrev < cooldownPeriod
    /\ last.alert.riskRewardRatio >= 30000

\* C3: without a live cooldown entry for the alert's key, shouldNotify returns
\* true exactly when the net risk/reward is at or above the instrument's
\* adaptive threshold if one is set, else the base value of the level
\* (FIRED 2.0, READY 2.5, WATCH 3.0).
C3_ThresholdDecides ==
    (/\ last # None
     /\ last.path # "error"
     /\ (last.existing = NoEntry \/ last.existing.age >= cooldownPeriod))
    => (last.ret <=>
          last.alert.riskRewardRatio >=
             (IF last.adaptiveBefore # 0 THEN last.adaptiveBefore
              ELSE IF last.alert.level = "FIRED" THEN 20000
              ELSE IF last.alert.level = "READY" THEN 25000
              ELSE 30000))

\* an alert exactly at an adaptive threshold that has been set is accepted
C3_Witness ==
    /\ last # None
    /\ last.ret
    /\ last.adaptiveBefore # 0
    /\ last.alert.riskRewardRatio = last.adaptiveBefore

\* C4: inside the cooldown window of accepted notifications of an instrument
\* and strategy, an alert of a strictly higher level is accepted whatever its
\* net risk/reward.
C4_UpgradeBypasses ==
    (/\ last # None
     /\ last.path # "error"
     /\ last.recentLevels # {}
     /\ \A l \in last.recentLevels : Rank(l) < Rank(last.alert.level))
    => (last.ret /\ last.path = "upgrade")

\* C5: inside the cooldown window of an accepted FIRED notification of an
\* instrument and strategy, an alert of a lower level is suppressed whatever
\* its net risk/reward.
C5_DowngradeSuppressed ==
    (/\ last # None
     /\ "FIRED" \in last.recentLevels
     /\ Rank(last.alert.level) < 3)
    => ~last.ret

\* C6: for every instrument and level the bar applied to an alert without a
\* live cooldown entry never decreases.
C6_BarNeverDecreases ==
    [][\A s \in AllSymbols, l \in Levels :
          adaptiveThresholdFor(adaptiveThresholds', s, l) >=
             adaptiveThresholdFor(adaptiveThresholds, s, l)]_vars

\* C7: an instrument's adaptive threshold changes only in a step in which
\* shouldNotify accepts an alert of that instrument and brings its count to a
\* multiple of 10 above 50; the new value is the old one (2.0 when none was
\* set) plus 10%, capped at 5.0; the threshold is never above 5.0.
C7_AdjustmentRule ==
    [][\A s \in AllSymbols :
          /\ adaptiveThresholds'[s] <= 50000
          /\ adaptiveThresholds'[s] # adaptiveThresholds[s] =>
                /\ last' # None
                /\ last'.ret
                /\ last'.alert.symbol = s
                /\ notificationStats'[s] = notificationStats[s] + 1
                /\ notificationStats'[s] % 10 = 0
                /\ notificationStats'[s] > 50
                /\ LET old == IF adaptiveThresholds[s] = 0 THEN 20000
                              ELSE adaptiveThresholds[s]
                   IN  adaptiveThresholds'[s] =
                          (IF (old * 11) \div 10 > 50000 THEN 50000
                           ELSE (old * 11) \div 10)]_vars

\* the adjustment that hits the cap has been made
C7_Witness ==
    /\ last # None
    /\ last.ret
    /\ last.adaptiveBefore = 47158
    /\ adaptiveThresholds[last.alert.symbol] = 50000

----------------------------------------------------------------------------
(* Claims about the monitoring cycle *)

\* C2: when a timer tick starts a monitoring cycle while the previous one is
\* still running, no interleaving of the two cycles lets shouldNotify return
\* true twice for one key within a cooldown period: a call of a cycle that
\* returns true is the first accepted one of its key, or comes a cooldown
\* period or more after the last accepted one.
C2_OverlapAtMostOnce ==
    \A c \in Cycles :
        (last # None /\ last.caller = c /\ last.ret) =>
            (last.sincePrev = Never \/ last.sincePrev >= cooldownPeriod)

\* two cycles are running; one has had its alert accepted and is still
\* sending its notification; the other's call for the same key, made in the
\* same quarter of an hour, has just been suppressed by that entry
C2_Witness ==
    \E c, d \in Cycles :
        /\ c # d
        /\ cycle[c].pc = "running"
        /\ cycle[d].pc = "running"
        /\ last # None
        /\ last.caller = d
        /\ ~last.ret
        /\ last.path = "cooldown"
        /\ last.sincePrev = 0
        /\ cycle[c].item[last.alert.symbol].status \in {"saving", "sending"}
        /\ cycle[c].item[last.alert.symbol].level = last.alert.level

\* the statuses at which the cycle is through with an instrument
Terminal ==
    {"fetchFailed", "noOpportunity", "analysisFailed", "rejected", "riskFailed",
     "classifyFailed", "suppressed", "notified", "notifyFailed"}

\* C9: a failed fetch of an instrument, or an exception in a later stage for
\* an instrument or opportunity, does not abort the cycle: the cycle never
\* ends in the catch of lines 247-250, a running cycle always has a next step
\* (a continuation that is running, or I/O it waits for), and the cycle
\* returns only when every instrument has been taken as far as its own
\* outcomes allow and the statistics have been published.
C9_FailureDoesNotAbort ==
    \A c \in Cycles :
        /\ cycle[c].pc # "aborted"
        /\ cycle[c].pc = "running" =>
              \/ running = c
              \/ \E s \in AllSymbols :
                    cycle[c].item[s].status \in {"fetching", "saving", "sending"}
              \/ calls[c] # NoCall
        /\ cycle[c].pc = "done" =>
              /\ cycle[c].published
              /\ \A s \in SymbolsOf(Workload.symbols) :
                    cycle[c].item[s].status \in Terminal

\* a cycle has returned with its statistics published; the fetch of one
\* instrument failed and the other instrument went through every stage, to
\* its notification
C9_Witness ==
    \E c \in Cycles :
        /\ cycle[c].pc = "done"
        /\ cycle[c].published
        /\ cycle[c].item["BTCUSDT"].status = "fetchFailed"
        /\ cycle[c].item["ETHUSDT"].status = "notified"

\* C10: when saveSnapshot fails for an alert that passed deduplication, the
\* e-mail and the broadcast of that alert are still attempted in its cycle.
C10_NotifiedDespiteSnapshotFailure ==
    \A c \in Cycles, s \in AllSymbols :
        (cycle[c].pc = "done" /\ cycle[c].item[s].snapshot = "failed") =>
            (cycle[c].item[s].email # "none" /\ cycle[c].item[s].broadcast)

\* C11: a snapshot is saved, an e-mail sent or an opportunity broadcast only
\* in sendNotification for an alert of processedAlerts; an alert enters
\* processedAlerts only in the step in which shouldNotify returns true for
\* it, is classified only when the risk filter accepted its opportunity, and
\* that only for an opportunity the signal generator returned in this cycle;
\* a rejected or suppressed opportunity has no snapshot, e-mail or broadcast.
C11_OnlyAcceptedAreNotified ==
    [][\A c \in Cycles, s \in AllSymbols :
          LET a == cycle[c].item[s]
              b == cycle'[c].item[s]
          IN  /\ b.status \in {"rejected", "suppressed"} =>
                    (b.snapshot = "none" /\ b.email = "none" /\ ~b.broadcast)
              /\ (/\ b.status # "fetching"
                  /\ (b.snapshot # a.snapshot \/ b.email # a.email
                         \/ b.broadcast # a.broadcast))
                    => a.status \in {"saving", "sending"}
              /\ (b.status = "saving" /\ a.status # "saving") => a.status = "accepted"
              /\ (b.status = "accepted" /\ a.status # "accepted") =>
                    /\ a.status \in {"classified", "deciding"}
                    /\ last' # None
                    /\ last'.caller = c
                    /\ last'.ret
                    /\ last'.alert.symbol = s
              /\ (b.status \in {"classified", "deciding"}
                    /\ a.status \notin {"classified", "deciding"}) => a.status = "valid"
              /\ (b.status = "valid" /\ a.status # "valid") =>
                    /\ a.status = "opportunity"
                    /\ a.riskRewardRatio >= minNetRR
              /\ (b.status = "opportunity" /\ a.status # "opportunity") =>
                    /\ a.status = "fetched"
                    /\ \E o \in Candidates :
                          /\ b.strategy = o.strategy
                          /\ b.riskRewardRatio = o.riskRewardRatio]_vars

\* a cycle has returned: one instrument's opportunity was rejected by the
\* risk filter, the other's alert was accepted and notified
C11_Witness ==
    \E c \in Cycles :
        /\ cycle[c].pc = "done"
        /\ cycle[c].item["BTCUSDT"].status = "rejected"
        /\ cycle[c].item["ETHUSDT"].status = "notified"
        /\ cycle[c].item["ETHUSDT"].snapshot = "saved"
        /\ cycle[c].item["ETHUSDT"].broadcast

\* C12: with the minimum of 2.0, every opportunity the risk filter lets
\* through, every alert shouldNotify accepts from a cycle, and every alert
\* for which a snapshot, an e-mail or a broadcast is made has a net
\* risk/reward of at least 2.0.
C12_NotifiedAtLeastMinimum ==
    /\ \A c \in Cycles, s \in AllSymbols :
          LET a == cycle[c].item[s]
          IN  (\/ a.status \in {"valid", "classified", "deciding", "accepted", "saving",
                                 "sending", "notified", "notifyFailed", "suppressed",
                                 "classifyFailed"}
               \/ a.snapshot # "none" \/ a.email # "none" \/ a.broadcast)
                 => a.riskRewardRatio >= 20000
    /\ \A c \in Cycles :
          (last # None /\ last.caller = c /\ last.ret) =>
              last.alert.riskRewardRatio >= 20000

\* an opportunity of net risk/reward 1.8 came out of the signal generator
\* and was rejected by the risk filter, in a cycle that notified another
C12_Witness ==
    \E c \in Cycles :
        /\ cycle[c].item["BTCUSDT"].status = "rejected"
        /\ cycle[c].item["BTCUSDT"].riskRewardRatio = 18000
        /\ cycle[c].item["ETHUSDT"].status = "notified"
        /\ cycle[c].item["ETHUSDT"].email = "sent"

----------------------------------------------------------------------------
(* Claims about the DataCollector *)

C14_RequestsSpaced ==
    http.lastGap = NoGap \/ http.lastGap >= rateLimitDelay

\* C15: a request is sent at most twice: once, and once more after a 429.
C15_RetriedAtMostOnce ==
    \A id \in Requests : http.request[id].sends <= 2

\* C16: within one monitoring cycle at most batchSize fetches are in flight,
\* and an instrument of a later batch is fetched only when no instrument of
\* an earlier batch is still waiting or being fetched
C16_BatchesInTurn ==
    \A c \in Cycles :
       LET started == {s \in SymbolsOf(Workload.symbols) :
                          cycle[c].item[s].status \notin {"unused", "waiting"}}
           inFlight == {s \in AllSymbols : cycle[c].item[s].status = "fetching"}
       IN  /\ Cardinality(inFlight) <= batchSize
           /\ \A s \in started, t \in SymbolsOf(Workload.symbols) :
                  BatchOf(t) < BatchOf(s) =>
                     cycle[c].item[t].status \notin {"waiting", "fetching"}

\* the second batch is being fetched after a first batch of five, of which
\* one fetch failed
C16_Witness ==
    /\ workload = "batches"
    /\ cycle["cycle1"].item["DOGEUSDT"].status = "fetching"
    /\ cycle["cycle1"].item["BTCUSDT"].status = "fetched"
    /\ cycle["cycle1"].item["SOLUSDT"].status = "fetchFailed"
    /\ \A s \in AllSymbols : BatchOf(s) = 0 =>
          cycle["cycle1"].item[s].status \in {"fetched", "fetchFailed"}

\* C17: queued alerts are passed to sendAlert in the order they were added;
\* at most one call of processQueue is running and at most one sendAlert is
\* in flight; sendAlert is called no sooner than queueDelay (1 s) after the
\* previous call of sendAlert returned
C17_FifoOneAtATimeSpaced ==
    /\ \A i \in 1..Len(notifier.log) : notifier.log[i] = i
    /\ Cardinality({l \in Loops : notifier.loop[l].pc # "none"}) <= 1
    /\ Cardinality({a \in QueuedAlerts : notifier.outcome[a] = "pending"}) <= 1
    /\ notifier.lastStartGap = NotEnded \/ notifier.lastStartGap >= queueDelay

\* the second alert is being delivered, after the first, while a third one,
\* added while the loop was running, waits in the queue
C17_Witness ==
    /\ notifier.log = <<1, 2>>
    /\ notifier.outcome[1] = "sent"
    /\ notifier.outcome[2] = "pending"
    /\ notifier.notificationQueue = <<3>>
    /\ notifier.lastStartGap = queueDelay

\* C18: every alert added to the queue is eventually passed to sendAlert,
\* and no alert is passed twice, whether deliveries fail or not
C18_EachPassedOnce ==
    /\ \A a \in QueuedAlerts :
          [](notifier.added >= a =>
                <>(\E i \in 1..Len(notifier.log) : notifier.log[i] = a))
    /\ [](\A i, j \in 1..Len(notifier.log) :
             notifier.log[i] = notifier.log[j] => i = j)

\* the first delivery failed, and the loop has delivered the alerts behind
\* it, the last of them added while the loop was running
C18_Witness ==
    /\ notifier.outcome[1] = "failed"
    /\ notifier.outcome[2] = "sent"
    /\ notifier.outcome[3] \in {"sent", "failed"}
    /\ notifier.log = <<1, 2, 3>>
    /\ ~notifier.isProcessing
    /\ notifier.notificationQueue = << >>

\* what the k-th save was given and the id it returned, as the caller
\* holds them
SavedBy(k) ==
    [id |-> Str(ToString(k)),
     symbol |-> InputOf(k).opportunity.fields.symbol,
     marketData |-> InputOf(k).marketData,
     opportunities |-> Arr(<<InputOf(k).opportunity>>)]

\* C19: getSnapshot of the id of a stored snapshot returns a record whose
\* id, symbol, marketData and opportunities are those that were saved; a save
\* returns an id that no save returned before; getSnapshot of an id that was
\* never returned, or whose file was removed, returns null
C19_RoundTrip ==
    /\ \A k \in snapshots.files :
          LET read == JSONparse(Written(k))
          IN  \A f \in {"id", "symbol", "marketData", "opportunities"} :
                 read.fields[f] = SavedBy(k)[f]
    /\ snapshots.lastOp.op = "get" =>
          IF snapshots.lastOp.stored
          THEN /\ snapshots.lastOp.result.kind = "object"
               /\ \A f \in {"id", "symbol", "marketData", "opportunities"} :
                      snapshots.lastOp.result.fields[f] = SavedBy(snapshots.lastOp.id)[f]
          ELSE snapshots.lastOp.result = Null
    /\ snapshots.lastOp.op = "save" =>
          /\ snapshots.lastOp.id \notin 1..(snapshots.saved - 1)
          /\ snapshots.lastOp.id \in snapshots.files

\* the first snapshot, saved with market data, has been read back
C19_Witness ==
    /\ snapshots.lastOp.op = "get"
    /\ snapshots.lastOp.id = 1
    /\ snapshots.lastOp.stored
    /\ snapshots.lastOp.result.fields.symbol = Str("ETHUSDT")
    /\ snapshots.lastOp.result.fields.marketData.fields.price = Num(2500)

\* C20: when the cleanup started by the last save has finished, no more
\* than maxSnapshots files are stored, they are the most recently written
\* ones, and neither getSnapshot nor listSnapshots returns an older one
C20_CapKeepsNewest ==
    LET kept == {k \in 1..snapshots.saved : k > snapshots.saved - maxSnapshots}
    IN  snapshots.pc = "idle" =>
           /\ Cardinality(snapshots.files) <= maxSnapshots
           /\ snapshots.files = kept
           /\ (snapshots.lastOp.op = "get" /\ snapshots.lastOp.id \notin kept) =>
                  snapshots.lastOp.result = Null
           /\ snapshots.lastOp.op = "list" =>
                  /\ snapshots.lastOp.ids \subseteq {Str(ToString(k)) : k \in kept}
                  /\ Cardinality(snapshots.lastOp.ids) <= snapshots.lastOp.limit

\* two snapshots more than the cap were saved, and the second one is asked for
C20_Witness ==
    /\ snapshots.pc = "idle"
    /\ snapshots.saved = maxSnapshots + 2
    /\ Cardinality(snapshots.files) = maxSnapshots
    /\ snapshots.lastOp.op = "get"
    /\ snapshots.lastOp.id = 2
    /\ snapshots.lastOp.result = Null

\* C21: a snapshot older than the retention window is eventually removed
\* by a sweep, however few snapshots are stored, and getSnapshot does not
\* return a removed one
C21_ExpiredEventuallyRemoved ==
    /\ \A k \in 1..MaxNotifications :
          [](k \in snapshots.expired \cap snapshots.files => <>(k \notin snapshots.files))
    /\ []((snapshots.lastOp.op = "get" /\ ~snapshots.lastOp.stored) =>
             snapshots.lastOp.result = Null)

\* C22: with saves and count-based sweeps running side by side no sweep
\* passes an error on to its caller, and when every sweep has ended no more
\* than maxSnapshots files are stored
C22_ConcurrentSweepsKeepCap ==
    /\ snapshots.lastSweep \in {"none", "returned", "failed"}
    /\ (\A s \in Sweeps : snapshots.sweeps[s].pc = "none") =>
          Cardinality(snapshots.files) <= maxSnapshots

\* C23: the snapshot saved for an alert holds the market data collected for
\* the alert's instrument in the cycle that produced the alert
C23_SnapshotHoldsCollected ==
    \A c \in Cycles, s \in AllSymbols :
       cycle[c].item[s].snapshot = "saved" =>
          cycle[c].item[s].savedMarketData = cycle[c].item[s].marketData

\* a configuration the monitor must not run under: no instrument, a polling
\* interval that is not a positive number, a minimum risk/reward below 1.0
ConfigInvalid(cfg) ==
    \/ cfg.monitoring.symbols = 0
    \/ cfg.monitoring.interval.nan
    \/ cfg.monitoring.interval.value <= 0
    \/ LessThan(cfg.risk.minNetRR, Number(10000))

\* C24: under an invalid configuration (no instrument, an invalid polling
\* interval, a minimum risk/reward below 1.0) start() fails before any
\* monitoring cycle runs and before the cycle timer is installed
C24_InvalidConfigNeverCycles ==
    ConfigInvalid(config(lifecycle.env)) =>
        /\ lifecycle.pc \in {"constructed", "failed"}
        /\ ~monitoringInterval
        /\ \A c \in Cycles : cycle[c] = IdleCycle

\* C25: once stop() has returned no monitoring cycle is started, at whatever
\* point of start-up or operation stop() was called
C25_NoCycleAfterStop ==
    [][lifecycle.stop = "returned" =>
          \A c \in Cycles : cycle'[c].pc = "running" => cycle[c].pc = "running"]_vars

\* C26: market data with fewer than 50 candles, none included, gives no
\* candidate from analyzeMarket, hence nothing to alert on for the
\* instrument, and analyzeMarket raises nothing to the cycle
C26_ShortSeriesNoCandidates ==
    engine.analysed.pc = "returned" =>
        LET marketData == engine.analysed.marketData
        IN  (marketData.klines # Undefined /\ marketData.klines.length < 50) =>
                /\ engine.analysed.ret.validCandidates = <<>>
                /\ ~engine.analysed.ret.raised
                /\ \A g \in engine.generated : g.symbol # marketData.symbol

\* a series of 49 candles with a volume spike in a rising market was
\* analysed and gave nothing
C26_Witness ==
    /\ engine.analysed.pc = "returned"
    /\ engine.analysed.marketData.klines # Undefined
    /\ engine.analysed.marketData.klines.length = 49
    /\ engine.analysed.marketData.klines.trueRange = 20000
    /\ engine.analysed.marketData.klines.volZ = 2000
    /\ engine.analysed.ret.validCandidates = <<>>

\* net risk/reward values around the minimum of 1.5
BoundaryNetRRs == {14900, 14949, 14950, 14999, 15000, 15001, 15050}

\* a builder that has computed this net risk/reward returns a candidate, and
\* analyzeMarket keeps it
ReturnedWith(netRR) ==
    /\ ~belowMinimum(netRR)
    /\ isValidCandidate([netRR |-> toFixed2(netRR)])

\* C27: every candidate analyzeMarket returns has a net risk/reward of at
\* least the minimum of 1.5; one computed at exactly the minimum is returned,
\* one computed below it, by however little, is not
C27_ReturnedAtOrAboveMinimum ==
    engine.analysed.pc = "returned" =>
        /\ \A i \in 1..Len(engine.analysed.ret.validCandidates) :
              engine.analysed.ret.validCandidates[i].netRR >= 15000
        /\ \A netRR \in BoundaryNetRRs : ReturnedWith(netRR) <=> netRR >= 15000

\* a candidate was returned whose stop is the 0.12% floor, the lowest net
\* risk/reward the builders compute
C27_Witness ==
    /\ engine.analysed.pc = "returned"
    /\ \E i \in 1..Len(engine.analysed.ret.validCandidates) :
          engine.analysed.ret.validCandidates[i].netRR = 15800

\* C28: every candidate the breakout, pullback and trend-follow builders
\* produce has, when LONG, stopLoss < entry < takeProfit1 < takeProfit2 and,
\* when SHORT, takeProfit2 < takeProfit1 < entry < stopLoss
C28_LevelsOrdered ==
    engine.analysed.pc = "returned" =>
        \A i \in 1..Len(engine.analysed.ret.validCandidates) :
            LET c == engine.analysed.ret.validCandidates[i]
            IN  IF c.direction = "LONG"
                THEN c.stopLoss < c.entry /\ c.entry < c.takeProfit1
                     /\ c.takeProfit1 < c.takeProfit2
                ELSE c.takeProfit2 < c.takeProfit1 /\ c.takeProfit1 < c.entry
                     /\ c.entry < c.stopLoss

\* a short pullback and a short trend-follow candidate were returned together
C28_Witness ==
    /\ engine.analysed.pc = "returned"
    /\ engine.analysed.marketData.price > 0
    /\ engine.analysed.marketData.klines # Undefined
    /\ engine.analysed.marketData.klines.trueRange > 0
    /\ \E i, j \in 1..Len(engine.analysed.ret.validCandidates) :
          /\ engine.analysed.ret.validCandidates[i].strategy = "PULLBACK"
          /\ engine.analysed.ret.validCandidates[i].direction = "SHORT"
          /\ engine.analysed.ret.validCandidates[j].strategy = "TREND_FOLLOW"

\* C29: a breakout candidate has its entry at the market price, its stop one
\* base stop distance from the entry, take-profit 1 at 2 and take-profit 2
\* at 3 stop distances from the entry, on the profit side
C29_BreakoutLevels ==
    engine.analysed.pc = "returned" =>
        \A i \in 1..Len(engine.analysed.ret.validCandidates) :
            LET c == engine.analysed.ret.validCandidates[i]
                marketData == engine.analysed.marketData
                baseStopDist == calculateBaseStopDist(marketData.price,
                                                      calculateATR(marketData.klines, 20))
                side == IF c.direction = "LONG" THEN 1 ELSE 0 - 1
            IN  c.strategy = "BREAKOUT" =>
                    /\ c.entry = marketData.price
                    /\ c.stopLoss = c.entry - side * baseStopDist
                    /\ c.takeProfit1 = c.entry + side * 2 * baseStopDist
                    /\ c.takeProfit2 = c.entry + side * 3 * baseStopDist

\* C30: no two candidates produced in the lifetime of the process carry the
\* same identifier, those of one strategy and direction for two instruments
\* of one cycle included
C30_IdentifiersUnique ==
    \A g, h \in engine.generated : g.id = h.id => g = h

\* C31: assessRisk sets isAcceptable exactly when the four checks hold: net
\* risk/reward at least the minimum of 2.0, volatility at most 5%, liquidity
\* at least 1,000,000 and market condition at least 0.5, whatever the score
C31_AcceptableIffAllChecks ==
    invoked.method = "assessRisk" =>
        LET factors == invoked.ret.factors
        IN  invoked.ret.isAcceptable <=>
                /\ factors.netRR >= 20000
                /\ factors.volatility <= 500
                /\ factors.liquidity >= 1000
                /\ factors.marketCondition >= 50

\* a score of 75 with the liquidity below its threshold: not acceptable
C31_Witness ==
    /\ invoked.method = "assessRisk"
    /\ invoked.ret.factors.liquidity < 1000
    /\ invoked.ret.riskScore >= 75
    /\ ~invoked.ret.isAcceptable

\* C32: every alert mergeSimilarSignals returns is one of its input, and
\* every input alert is represented in the output by an alert of the same
\* instrument, within 0.1% of its distance to entry and of a level at least
\* as high
C32_EveryAlertRepresented ==
    invoked.method = "mergeSimilarSignals" =>
        /\ \A j \in 1..Len(invoked.ret) :
              \E i \in 1..Len(invoked.alerts) : invoked.ret[j] = invoked.alerts[i]
        /\ \A i \in 1..Len(invoked.alerts) :
              \E j \in 1..Len(invoked.ret) :
                 /\ invoked.ret[j].symbol = invoked.alerts[i].symbol
                 /\ Abs(invoked.ret[j].distanceToEntry
                          - invoked.alerts[i].distanceToEntry) <= 100
                 /\ levelOrder(invoked.ret[j].level) >= levelOrder(invoked.alerts[i].level)

\* C38: no two alerts of one instrument in the list mergeSimilarSignals
\* returns are within 0.1% of each other in distance to entry
C38_MergedAlertsApart ==
    invoked.method = "mergeSimilarSignals" =>
        \A i, j \in 1..Len(invoked.ret) :
            (i # j /\ invoked.ret[i].symbol = invoked.ret[j].symbol) =>
                Abs(invoked.ret[i].distanceToEntry - invoked.ret[j].distanceToEntry) >= 100

\* a cooler state without the entries whose expiry has passed
WithoutExpired(st) ==
    [st EXCEPT !.cooldownMap =
        [k \in Keys |-> IF st.cooldownMap[k] # NoEntry /\ st.cooldownMap[k].age > 2
                        THEN NoEntry ELSE st.cooldownMap[k]]]

\* C33: a sweep of the cooldown map removes exactly the entries whose expiry
\* has passed, keeps the live ones and leaves the notification counters and
\* the adaptive thresholds alone; a shouldNotify call made after it returns
\* what it would have returned without it, and leaves the same live state
C33_SweepRemovesOnlyExpired ==
    [][(\E k \in Keys : cooldownMap[k] # NoEntry /\ cooldownMap'[k] = NoEntry) =>
          /\ CoolerState' = WithoutExpired(CoolerState)
          /\ \A alert \in Workload.alerts :
                LET swept == shouldNotify(CoolerState', alert, "none")
                    unswept == shouldNotify(CoolerState, alert, "none")
                IN  /\ swept.ret = unswept.ret
                    /\ WithoutExpired(swept.st) = WithoutExpired(unswept.st)]_vars

\* a sweep has removed the entry of a notification accepted more than a
\* cooldown period ago and has kept an entry that is still live
C33_Witness ==
    /\ \E k \in Keys : /\ sinceAccepted[k] # Never
                       /\ sinceAccepted[k] > cooldownPeriod
                       /\ cooldownMap[k] = NoEntry
    /\ \E k \in Keys : cooldownMap[k] # NoEntry /\ cooldownMap[k].age <= cooldownPeriod

C35_PricePositive ==
    collected.pc = "returned" => collected.marketData.price > 0

\* C36: a monitoring cycle starts an alert e-mail only when no alert e-mail,
\* of the same cycle or of an overlapping one, was started less than 1
\* second before
C36_EmailsOneSecondApart ==
    [][\A l \in Loops :
          (notifier.loop[l].pc = "saving" /\ notifier'.loop[l].pc = "sending") =>
              \A k \in Loops :
                  notifier.loop[k].alert > 0 => notifier.loop[k].timer >= queueDelay]_vars

\* C37: from a snapshot with at least 50 candles, a positive price, a valid
\* ATR and a volume z-score above 1.5, generateCandidateStrategies produces
\* a BREAKOUT candidate, LONG when the latest return is positive and SHORT
\* when it is negative
C37_BreakoutOnVolumeSpike ==
    engine.analysed.pc = "returned" =>
        LET marketData == engine.analysed.marketData
            klines == marketData.klines
            candidates == generateCandidateStrategies(performFullAnalysis(marketData),
                                                      marketData, 0)
        IN  (/\ klines # Undefined
             /\ klines.length >= 50
             /\ marketData.price > 0
             /\ calculateATR(klines, 20) > 0
             /\ klines.volZ > 1500) =>
                \E i \in 1..Len(candidates) :
                    /\ candidates[i].strategy = "BREAKOUT"
                    /\ candidates[i].direction = (IF klines.ret1 > 0 THEN "LONG" ELSE "SHORT")

C39_SynthesizedYieldsNothing ==
    (collected.pc = "returned" /\ collected.remote.basic = "fail") =>
        /\ collected.marketData.klines = << >>
        /\ engine.analysed.pc = "returned" =>
              /\ engine.analysed.marketData.klines.length = 0
              /\ engine.analysed.ret.validCandidates = << >>

\* mock data with a positive price has been analysed
C39_Witness ==
    /\ collected.pc = "returned"
    /\ collected.remote.basic = "fail"
    /\ collected.marketData.price > 0
    /\ engine.analysed.pc = "returned"
    /\ engine.analysed.marketData.price = collected.marketData.price * 10000
    /\ engine.analysed.ret.validCandidates = << >>

============================================================================
